---- MODULE Spec2Model ----
(***************************************************************************)
(* perucheck: usage metering (src/lib/billing.ts) and the consultation     *)
(* orchestrator of HomeScreen (src/app/(tabs)/index.tsx).                  *)
(*                                                                         *)
(* The specifications below share one list of variables:                   *)
(*   SpecLedger  the credit ledger: user_credits rows and getUsageSnapshot *)
(*   Spec        the orchestrator: fetchService, its post-lookup step and  *)
(*               the usage snapshot the screen holds, from the mount on,   *)
(*               with a client whose awaits may return errors or throw     *)
(*   SpecLoaded  the orchestrator once the first snapshot is on screen,    *)
(*               with a client whose awaits return and never throw         *)
(*   SpecOwner   the owner-lookup effect of HomeScreen                     *)
(*   SpecEnrich  enrichSunarpWithDni over bounded owner lists              *)
(*   SpecSoat    parseSoat over bounded scraper texts                      *)
(*   SpecType    ownerType / isCompanyName over bounded owner names        *)
(*   SpecItv     parseItv and the badge of renderItvState                  *)
(*   SpecLive    the orchestrator with responses that eventually arrive    *)
(*   SpecScreen  SpecLoaded, started with or without a session             *)
(*   SpecSubmit  SpecLoaded with the plate of the last handleConsult kept  *)
(***************************************************************************)
EXTENDS Integers, Sequences, FiniteSets, Bags, TLC

VARIABLES
    \* ---- backing store (supabase) ----
    supabaseOk,     \* the client of src/lib/supabase.ts is configured (not null)
    user_credits,   \* table user_credits: sequence of rows in insertion order
    consultas,      \* table consultas: the bag of inserted rows
    now,            \* wall clock, in days
    \* ---- result of the last getUsageSnapshot call (SpecLedger) ----
    snapCall,       \* its userId argument, the clock when it ran, how the reads went
    snapshot,       \* the UsageSnapshot it returned, as a sequence of 0 or 1
    \* ---- HomeScreen (Spec) ----
    session,        \* session?.user?.id ("" when there is no session)
    serviceState,   \* React state: per-key ServiceState
    usage,          \* React state: UsageSnapshot | null, as a sequence of 0 or 1
    view,           \* what the last committed render closed over
    calls,          \* fetchService invocations that passed the guards, and
                    \* whether the promise of one of them has rejected
    usagePc,        \* the mount effect's refreshUsage
    submitted,      \* the plate of the last handleConsult that went through
                    \* (recorded in SpecSubmit only)
    \* ---- owner-lookup effect (SpecOwner) ----
    ownerName,      \* sunarpPrimaryNameRaw of the committed render, as characters
    ownerLookup,    \* React state: OwnerLookupState
    cycles,         \* the run() of every effect cycle started, in order
    applied,        \* the cycle that last set ownerLookup from run() (0: none)
    \* ---- module-level functions of index.tsx ----
    enrichment,     \* one call of enrichSunarpWithDni: argument, promises, result
    soat,           \* one call of parseSoat: the text, how it was made, the result
    classified,     \* one evaluation of ownerType: the owner name and the type
    itv             \* one call of parseItv and what renderItvState shows of it

vars == <<supabaseOk, user_credits, consultas, now, snapCall, snapshot,
          session, serviceState, usage, view, calls, usagePc, submitted,
          ownerName, ownerLookup, cycles, applied, enrichment, soat,
          classified, itv>>

ledgerVars == <<snapCall, snapshot>>
homeVars == <<session, serviceState, usage, view, calls, usagePc, submitted>>
ownerVars == <<ownerName, ownerLookup, cycles, applied>>
pureVars == <<enrichment, soat, classified, itv>>

(***************************************************************************)
(* Bounds of the model.                                                    *)
(***************************************************************************)
MaxGrants == 2      \* rows of user_credits
MaxNow == 1         \* the clock stops here
MaxLookups == 2     \* fetchService invocations that reach the HTTP lookup
MaxCycles == 3      \* owner-lookup effect cycles
MaxOwners == 2      \* owners in the argument of enrichSunarpWithDni
MaxRowTokens == 9   \* tokens in the data row given to parseSoat
MaxNameWords == 2   \* words in the owner name given to ownerType
MaxItvTokens == 6   \* tokens in the row given to parseItv

(***************************************************************************)
(* null / undefined of a number field.                                     *)
(***************************************************************************)
NULL == 0 - 1
NoString == "null"

Max(a, b) == IF a >= b THEN a ELSE b

(***************************************************************************)
(* The plans catalog (table plans, read-only here).  total_consultas null  *)
(* is an unlimited plan, duration_days null takes the default.             *)
(***************************************************************************)
PlanIds == {"basico", "ilimitado"}
Plans ==
    [p \in PlanIds |->
        IF p = "basico"
        THEN [id |-> p, total_consultas |-> 2, duration_days |-> 1]
        ELSE [id |-> p, total_consultas |-> NULL, duration_days |-> NULL]]

Users == {"u1", "u2"}
NoUser == ""

DefaultDurationDays == 30

\* ?? on a number
Coalesce(a, b) == IF a # NULL THEN a ELSE b

(***************************************************************************)
(* billing.ts, getUsageSnapshot, the active-grant query: rows of the user  *)
(* with valid_until >= now, ordered by valid_until desc, created_at desc,  *)
(* limit 1.  Rows that tie on both keys are returned in an order the store *)
(* chooses, so the result is a set of possible answers, each a sequence of *)
(* 0 or 1 rows (maybeSingle).                                              *)
(***************************************************************************)
GteValidUntilDropped(row, t) == TRUE

GteValidUntil(row, t) == row.valid_until >= t

OrderedBeforeNoTieBreak(a, b) == a.valid_until > b.valid_until

OrderedBefore(a, b) ==
    \/ a.valid_until > b.valid_until
    \/ a.valid_until = b.valid_until /\ a.created_at > b.created_at

ActiveGrantRows(rows, uid, t) ==
    LET sel == {i \in DOMAIN rows : rows[i].user_id = uid /\ GteValidUntil(rows[i], t)}
    IN  {i \in sel : \A j \in sel : ~OrderedBefore(rows[j], rows[i])}

ActiveGrantQuery(rows, uid, t) ==
    IF ActiveGrantRows(rows, uid, t) = {} THEN {<<>>}
    ELSE {<<rows[i]>> : i \in ActiveGrantRows(rows, uid, t)}

\* the plans query of getUsageSnapshot: the plan id of the row, or null
PlanQuery(credit) ==
    IF credit # <<>> /\ credit[1].plan_id \in PlanIds THEN credit[1].plan_id ELSE NoString

EarlySnapshot ==
    [plan |-> NoString, credit |-> <<>>, creditsTotal |-> NULL, creditsUsed |-> 0,
     creditsRemaining |-> NULL, validUntil |-> NULL]

CreditsRemainingNoMax(creditsTotal, creditsUsed, hasCreditRow) ==
    IF creditsTotal # NULL THEN creditsTotal - creditsUsed
    ELSE IF hasCreditRow THEN NULL ELSE 0

CreditsRemaining(creditsTotal, creditsUsed, hasCreditRow) ==
    IF creditsTotal # NULL THEN Max(0, creditsTotal - creditsUsed)
    ELSE IF hasCreditRow THEN NULL ELSE 0

\* billing.ts 141-165: the snapshot computed from the two query results
ComputeSnapshot(credit, plan) ==
    LET planTotal == IF plan = NoString THEN NULL ELSE Plans[plan].total_consultas
        creditsTotal ==
            IF credit # <<>> THEN Coalesce(credit[1].total_consultas, planTotal)
            ELSE planTotal
        creditsUsed == IF credit # <<>> THEN credit[1].consultas_usadas ELSE 0
    IN  [plan |-> plan, credit |-> credit, creditsTotal |-> creditsTotal,
         creditsUsed |-> creditsUsed,
         creditsRemaining |-> CreditsRemaining(creditsTotal, creditsUsed, credit # <<>>),
         validUntil |-> IF credit # <<>> THEN credit[1].valid_until ELSE NULL]

(***************************************************************************)
(* getUsageSnapshot(userId): the set of snapshots a call at clock t can    *)
(* return.  A failed read gives data null (supabase-js returns the error,  *)
(* it does not throw), which the code reads as "no row".                   *)
(***************************************************************************)
Reads == {"ok", "credit_failed", "plan_failed"}

getUsageSnapshot(client, uid, rows, t, read) ==
    IF ~client \/ uid = NoUser THEN {EarlySnapshot}
    ELSE LET credits == IF read = "credit_failed" THEN {<<>>}
                        ELSE ActiveGrantQuery(rows, uid, t)
         IN  {ComputeSnapshot(c, IF read = "plan_failed" THEN NoString ELSE PlanQuery(c)) :
                 c \in credits}

(***************************************************************************)
(* billing.ts, changePlan(userId, planId): one new row for a plan id that  *)
(* resolves; nothing when the client or the user is missing, when the plan *)
(* read returns no row, or when the store refuses the insert.              *)
(***************************************************************************)
PlanLookup(planId) == IF planId \in PlanIds THEN {<<Plans[planId]>>, <<>>} ELSE {<<>>}

NewGrantNoDefault(uid, plan, t) ==
    [user_id |-> uid, plan_id |-> plan.id,
     total_consultas |-> Coalesce(plan.total_consultas, 0),
     consultas_usadas |-> 0,
     valid_until |-> t + Coalesce(plan.duration_days, 0),
     created_at |-> t]

NewGrant(uid, plan, t) ==
    LET duration == IF plan.duration_days # NULL THEN plan.duration_days
                    ELSE DefaultDurationDays
    IN  [user_id |-> uid, plan_id |-> plan.id,
         total_consultas |-> Coalesce(plan.total_consultas, 0),
         consultas_usadas |-> 0,
         valid_until |-> t + duration,
         created_at |-> t]

ChangePlan(uid, planId) ==
    /\ Len(user_credits) < MaxGrants
    /\ supabaseOk /\ uid # NoUser
    /\ \E plan \in PlanLookup(planId), inserted \in BOOLEAN :
          user_credits' = IF plan # <<>> /\ inserted
                          THEN Append(user_credits, NewGrant(uid, plan[1], now))
                          ELSE user_credits
    /\ UNCHANGED <<pureVars, supabaseOk, consultas, now, ledgerVars, homeVars, ownerVars>>

(***************************************************************************)
(* Rows of user_credits written by the other writers of the table (the     *)
(* backend that assigns purchased grants): the column total_consultas may  *)
(* be null there, and consultas_usadas is whatever that writer stored.     *)
(***************************************************************************)
StoreRows(t) ==
    {[user_id |-> u, plan_id |-> g[1], total_consultas |-> g[2],
      consultas_usadas |-> g[3], valid_until |-> t + d, created_at |-> t] :
        u \in Users, g \in {<<"ilimitado", NULL, 0>>, <<"basico", 1, 0>>, <<"basico", 1, 2>>},
        d \in {0, 1}}

StoreInsert ==
    /\ Len(user_credits) < MaxGrants
    /\ supabaseOk
    /\ \E row \in StoreRows(now) : user_credits' = Append(user_credits, row)
    /\ UNCHANGED <<pureVars, supabaseOk, consultas, now, ledgerVars, homeVars, ownerVars>>

Tick ==
    /\ now < MaxNow
    /\ now' = now + 1
    /\ UNCHANGED <<pureVars, supabaseOk, user_credits, consultas, ledgerVars, homeVars, ownerVars>>

\* a caller awaits getUsageSnapshot(uid): modal.tsx 33, plans.tsx 34 and 64
GetUsageSnapshot(uid) ==
    /\ \E read \in Reads :
          /\ \E s \in getUsageSnapshot(supabaseOk, uid, user_credits, now, read) :
                snapshot' = <<s>>
          /\ snapCall' = [userId |-> uid, at |-> now,
                          read |-> IF ~supabaseOk \/ uid = NoUser THEN "early" ELSE read]
    /\ UNCHANGED <<pureVars, supabaseOk, user_credits, consultas, now, homeVars, ownerVars>>

(***************************************************************************)
(* Initial values of the parts a specification does not move.              *)
(***************************************************************************)
\* serviceConfigs (three of its nine keys): field and scope of each service
KeyOrder == <<"soat", "sunarp", "licencia">>
Keys == {KeyOrder[i] : i \in DOMAIN KeyOrder}
Field(k) == IF k = "licencia" THEN "dni" ELSE "placa"
Scope(k) == IF k = "licencia" THEN "persona" ELSE "vehiculo"

\* ServiceState: data and error as "is set"; parsed is left to the normalizers
IdleService == [loading |-> FALSE, data |-> FALSE, error |-> FALSE, query |-> NoString]
IdleOwnerLookup == [loading |-> FALSE, type |-> NoString, data |-> FALSE,
                    error |-> NoString, query |-> <<>>]

InitStore ==
    /\ user_credits = <<>>
    /\ consultas = EmptyBag
    /\ now = 0

InitLedgerVars ==
    /\ snapCall = [userId |-> NoUser, at |-> 0, read |-> "none"]
    /\ snapshot = <<>>

InitHomeVars ==
    /\ session = NoUser
    /\ serviceState = [k \in Keys |-> IdleService]
    /\ usage = <<>>
    /\ view = [serviceState |-> [k \in Keys |-> IdleService], usage |-> <<>>]
    /\ calls = [lookups |-> 0, inflight |-> EmptyBag, rejected |-> FALSE]
    /\ submitted = NoString
    /\ usagePc = [pc |-> "done", snap |-> <<>>]

InitOwnerVars ==
    /\ ownerName = <<>>
    /\ ownerLookup = IdleOwnerLookup
    /\ cycles = <<>>
    /\ applied = 0

IdleEnrichment == [phase |-> "idle", parsed |-> <<>>, slots |-> <<>>, result |-> <<>>]

NoSoatCall == [made |-> <<>>, raw |-> <<>>, called |-> FALSE, parsed |-> <<>>]

NotClassified == [name |-> <<>>, type |-> NoString, called |-> FALSE]

NoItvCall == [made |-> <<>>, called |-> FALSE, parsed |-> <<>>, badge |-> <<>>]

InitPureVars ==
    /\ enrichment = IdleEnrichment
    /\ soat = NoSoatCall
    /\ classified = NotClassified
    /\ itv = NoItvCall

InitLedger ==
    /\ supabaseOk \in BOOLEAN
    /\ InitStore
    /\ InitLedgerVars
    /\ InitHomeVars
    /\ InitOwnerVars
    /\ InitPureVars

NextLedger ==
    \/ \E uid \in Users \cup {NoUser}, planId \in PlanIds \cup {"desconocido"} :
          ChangePlan(uid, planId)
    \/ StoreInsert
    \/ Tick
    \/ \E uid \in Users \cup {NoUser} : GetUsageSnapshot(uid)

SpecLedger == InitLedger /\ [][NextLedger]_vars

(***************************************************************************)
(*                HomeScreen: the consultation orchestrator                *)
(***************************************************************************)
\* resolved query values: formattedPlate.replace('-', '') is at most 6
\* characters, formatDni(personaDoc) at most 8 digits
QueryValues(field) ==
    IF field = "placa" THEN {"ABC123", "XYZ789", "ABC12"}
    ELSE {"12345678", "1234567", "1234"}

MinLengthSix(field) == 6

MinLength(field) == IF field = "placa" THEN 6 ELSE 8

\* index.tsx 1160-1164
hasCreditsAlways(u) == TRUE

hasCredits(u) ==
    IF u = <<>> THEN TRUE
    ELSE IF u[1].creditsRemaining = NULL THEN TRUE
    ELSE u[1].creditsRemaining > 0

\* index.tsx 1217: !queryValue || queryValue.length < min
TooShort(k, queryValue) == queryValue = "" \/ Len(queryValue) < MinLength(Field(k))

\* index.tsx 1227-1234: the dedup check
IsCachedNever(current, queryValue, force) == FALSE

IsCachedDespiteForce(current, queryValue, force) ==
    /\ current.query = queryValue
    /\ current.data
    /\ ~current.error
    /\ ~current.loading

IsCached(current, queryValue, force) ==
    /\ ~force
    /\ current.query = queryValue
    /\ current.data
    /\ ~current.error
    /\ ~current.loading

\* index.tsx 1238
IsBusy(current) == current.loading

(***************************************************************************)
(* fetchService up to its first await (index.tsx 1210-1248), evaluated on  *)
(* the values the render closed over: usage through guardCredits, and      *)
(* serviceState[key] as current.                                           *)
(***************************************************************************)
Outcome(k, queryValue, force) ==
    IF ~hasCredits(view.usage) THEN "no_credits"
    ELSE IF TooShort(k, queryValue) THEN "invalid"
    ELSE IF IsCached(view.serviceState[k], queryValue, force) THEN "cached"
    ELSE IF IsBusy(view.serviceState[k]) THEN "busy"
    ELSE "dispatched"

\* setService(key, partial): merged into the previous state by the updater
LoadingState(prev, queryValue) ==
    [prev EXCEPT !.loading = TRUE, !.error = FALSE, !.query = queryValue]
SuccessState(queryValue) ==
    [loading |-> FALSE, data |-> TRUE, error |-> FALSE, query |-> queryValue]
ErrorState(queryValue) ==
    [loading |-> FALSE, data |-> FALSE, error |-> TRUE, query |-> queryValue]

NewCall(k, queryValue) ==
    [key |-> k, query |-> queryValue, pc |-> "http", success |-> FALSE,
     consume |-> "none", snap |-> <<>>]

\* the render React commits when a handler or a continuation has set state
Rendered(st, us) == [serviceState |-> st, usage |-> us]

(***************************************************************************)
(* A press that calls fetchService(key, value, {force}): the service cards *)
(* (force false) and the refresh buttons (force true), index.tsx 1500-1570.*)
(* The updates a press handler makes are committed when it returns.        *)
(***************************************************************************)
FetchService(k, queryValue, force) ==
    /\ calls.lookups < MaxLookups
    /\ IF Outcome(k, queryValue, force) = "dispatched"
       THEN /\ serviceState' = [serviceState EXCEPT ![k] = LoadingState(@, queryValue)]
            /\ calls' = [calls EXCEPT
                           !.lookups = @ + 1,
                           !.inflight = @ (+) SetToBag({NewCall(k, queryValue)})]
            /\ view' = Rendered(serviceState', usage)
       ELSE UNCHANGED <<serviceState, calls, view>>
    /\ UNCHANGED <<pureVars, submitted, supabaseOk, user_credits, consultas, now, ledgerVars,
                   session, usage, usagePc, ownerVars>>

\* the scheduler commits a render of the state set by continuations
Render ==
    /\ view # Rendered(serviceState, usage)
    /\ view' = Rendered(serviceState, usage)
    /\ UNCHANGED <<pureVars, submitted, supabaseOk, user_credits, consultas, now, ledgerVars,
                   session, serviceState, usage, calls, usagePc, ownerVars>>

(***************************************************************************)
(* The continuations of one fetchService invocation.  The invocations in   *)
(* flight are a bag: two of them may be equal in every field.              *)
(***************************************************************************)
InFlight == BagToSet(calls.inflight)
SetCall(c, d) ==
    [calls EXCEPT !.inflight = (@ (-) SetToBag({c})) (+) SetToBag({d})]
RemoveCall(c) == [calls EXCEPT !.inflight = @ (-) SetToBag({c})]

\* what is left of an invocation in its finally block: key and queryValue go
\* only into columns of the consultas row that the row kept here leaves out
Finally(pc, success, consume, snap) ==
    [key |-> NoString, query |-> NoString, pc |-> pc, success |-> success,
     consume |-> consume, snap |-> snap]

SettleFailsScope(c, ok) ==
    /\ serviceState' = [k \in Keys |->
                          IF k = c.key /\ ok THEN SuccessState(c.query)
                          ELSE IF ~ok /\ Scope(k) = Scope(c.key) THEN ErrorState(c.query)
                          ELSE serviceState[k]]
    /\ calls' = IF session # NoUser
                THEN SetCall(c, Finally("register", ok, "none", <<>>))
                ELSE RemoveCall(c)

SettleWithoutCatch(c, ok) ==
    /\ serviceState' = [serviceState EXCEPT
                          ![c.key] = IF ok THEN SuccessState(c.query) ELSE @]
    /\ calls' = IF session # NoUser
                THEN SetCall(c, Finally("register", ok, "none", <<>>))
                ELSE RemoveCall(c)

SettleAlwaysRegisters(c, ok) ==
    /\ serviceState' = [serviceState EXCEPT
                          ![c.key] = IF ok THEN SuccessState(c.query)
                                     ELSE ErrorState(c.query)]
    /\ calls' = SetCall(c, Finally("register", ok, "none", <<>>))

\* index.tsx 1268-1307: setService(success | error), then the finally block,
\* which registers and refreshes only when a session exists
Settle(c, ok) ==
    /\ serviceState' = [serviceState EXCEPT
                          ![c.key] = IF ok THEN SuccessState(c.query)
                                     ELSE ErrorState(c.query)]
    /\ calls' = IF session # NoUser
                THEN SetCall(c, Finally("register", ok, "none", <<>>))
                ELSE RemoveCall(c)

\* index.tsx 1254-1286: the lookup answers; ok is "the try block got through"
\* (for the registry service that includes the awaited enrichSunarpWithDni,
\* which sets no state), anything else (network error, non-OK status,
\* unparseable body) throws and is caught.
HttpResponse(c, ok) ==
    /\ c.pc = "http"
    /\ Settle(c, ok)
    /\ UNCHANGED <<pureVars, submitted, supabaseOk, user_credits, consultas, now, ledgerVars,
                   session, usage, view, usagePc, ownerVars>>

(***************************************************************************)
(* The stored procedure consume_credit (called at billing.ts 200), as the  *)
(* specification describes it: it deducts one unit from the caller's       *)
(* active grant and returns true, or returns false when the caller has no  *)
(* remaining credit.  It runs on the server, atomically.                   *)
(***************************************************************************)
HasRemaining(row) ==
    row.total_consultas = NULL \/ row.consultas_usadas < row.total_consultas

consume_credit(rows, uid, t) ==
    IF ActiveGrantRows(rows, uid, t) = {} THEN {[data |-> FALSE, rows |-> rows]}
    ELSE {IF HasRemaining(rows[i])
          THEN [data |-> TRUE, rows |-> [rows EXCEPT ![i].consultas_usadas = @ + 1]]
          ELSE [data |-> FALSE, rows |-> rows] : i \in ActiveGrantRows(rows, uid, t)}

\* billing.ts 185-197: the row, of which user_id and success are kept
ConsultaRow(c) == [user_id |-> session, success |-> c.success]

\* billing.ts 201-206: whether registerConsulta goes on to the insert
InsertsAfterAlways(answer) == TRUE

InsertsAfter(answer) ==
    CASE answer = "error" -> TRUE       \* consumeError: warn, go on
      [] answer = "false" -> FALSE      \* denied: return before the insert
      [] answer = "thrown" -> FALSE     \* the await throws: on to the catch at 209
      [] OTHER -> TRUE

\* how the await of the rpc can end without an answer of the procedure: the
\* client returns an error, or the call throws
RpcFailures == {"error", "thrown"}

\* the same for a client whose awaits never throw
RpcErrors == {"error"}

\* billing.ts 208: the rows the insert leaves when the store accepts it
Inserted(row) == SetToBag({row})

(***************************************************************************)
(* billing.ts 182-211, registerConsulta: the rpc, then the insert, which   *)
(* the store accepts.  The rpc answers true or false (data), or fails: it   *)
(* returns an error, or it throws.  Nothing reads consultas in between, so *)
(* the two awaits are one step.  The answer stays with the invocation      *)
(* until its refreshUsage.                                                 *)
(***************************************************************************)
RegisterConsulta(c, failures) ==
    /\ c.pc = "register"
    /\ IF ~supabaseOk
       THEN /\ calls' = SetCall(c, Finally("refresh", FALSE, "none", <<>>))
            /\ UNCHANGED <<user_credits, consultas>>
       ELSE \E failure \in failures \cup {"none"} :
              \E r \in IF failure # "none" THEN {[data |-> FALSE, rows |-> user_credits]}
                       ELSE consume_credit(user_credits, session, now) :
                LET answer == IF failure # "none" THEN failure
                              ELSE IF r.data THEN "true" ELSE "false"
                IN  /\ user_credits' = r.rows
                    /\ consultas' = IF InsertsAfter(answer)
                                    THEN consultas (+) Inserted(ConsultaRow(c))
                                    ELSE consultas
                    /\ calls' = SetCall(c, Finally("refresh", FALSE, answer, <<>>))
    /\ UNCHANGED <<pureVars, submitted, supabaseOk, now, ledgerVars, session, serviceState,
                   usage, view, usagePc, ownerVars>>

\* how the await of getUsageSnapshot ends for the screen: with a snapshot, or
\* with an error thrown by a query of the client
HomeReads == {"ok", "thrown"}

\* the same for a client whose awaits never throw
HomeReadsOk == {"ok"}

\* index.tsx 1305 on 1033-1035: refreshUsage has try and finally but no catch,
\* its rejection leaves the finally block of fetchService and rejects the
\* promise fetchService returned
Rejected(c) == [RemoveCall(c) EXCEPT !.rejected = TRUE]

\* index.tsx 1027-1031: refreshUsage awaits getUsageSnapshot(session.user.id)
RefreshRead(c, reads) ==
    /\ c.pc = "refresh"
    /\ \E read \in reads :
          IF read = "thrown" THEN calls' = Rejected(c)
          ELSE \E s \in getUsageSnapshot(supabaseOk, session, user_credits, now, read) :
                  calls' = SetCall(c, Finally("apply", FALSE, "none", <<s>>))
    /\ UNCHANGED <<pureVars, submitted, supabaseOk, user_credits, consultas, now, ledgerVars, session,
                   serviceState, usage, view, usagePc, ownerVars>>

\* index.tsx 1032: setUsage(snapshot); fetchService returns
ApplySnapshotKeepOld(old, snap) == old

ApplySnapshot(old, snap) == snap

RefreshApply(c) ==
    /\ c.pc = "apply"
    /\ usage' = ApplySnapshot(usage, c.snap)
    /\ calls' = RemoveCall(c)
    /\ UNCHANGED <<pureVars, submitted, supabaseOk, user_credits, consultas, now, ledgerVars, session,
                   serviceState, view, usagePc, ownerVars>>

\* index.tsx 1038-1040: the mount effect runs refreshUsage once
MountRefreshRead ==
    /\ usagePc.pc = "read"
    /\ \E read \in HomeReads :
          IF read = "thrown" THEN usagePc' = [pc |-> "done", snap |-> <<>>]
          ELSE \E s \in getUsageSnapshot(supabaseOk, session, user_credits, now, read) :
                  usagePc' = [pc |-> "apply", snap |-> <<s>>]
    /\ UNCHANGED <<pureVars, submitted, supabaseOk, user_credits, consultas, now, ledgerVars, session,
                   serviceState, usage, view, calls, ownerVars>>

MountRefreshApply ==
    /\ usagePc.pc = "apply"
    /\ usage' = ApplySnapshot(usage, usagePc.snap)
    /\ usagePc' = [pc |-> "done", snap |-> <<>>]
    /\ UNCHANGED <<pureVars, submitted, supabaseOk, user_credits, consultas, now, ledgerVars, session,
                   serviceState, view, calls, ownerVars>>

(***************************************************************************)
(* The bulk handlers.  handleConsult (index.tsx 1175-1187) and             *)
(* handlePersonConsult (1328-1339) check the input and the credits, reset  *)
(* the scope and call fetchService(k, value, {force: true}) for every key  *)
(* of the scope (1310-1326), all before the next render: every one of      *)
(* those calls reads the serviceState and usage of the same closure.       *)
(***************************************************************************)
ResetState == [loading |-> FALSE, data |-> FALSE, error |-> FALSE, query |-> NoString]

resetServiceStateForScope(st, scope) ==
    [k \in Keys |-> IF Scope(k) = scope THEN ResetState ELSE st[k]]

ScopeKeys(scope) == {k \in Keys : Scope(k) = scope}

\* the keys of the scope whose fetchService call reaches the lookup
Started(scope, value) ==
    {k \in ScopeKeys(scope) : Outcome(k, value, TRUE) = "dispatched"}

\* the handler gets past its own checks: the length of the input, guardCredits
GoesThrough(scope, value) ==
    LET field == IF scope = "vehiculo" THEN "placa" ELSE "dni"
    IN  ~(Len(value) < MinLength(field) \/ ~hasCredits(view.usage))

\* what the handler sets
BulkStep(scope, value) ==
    LET reset == resetServiceStateForScope(serviceState, scope)
        started == Started(scope, value)
    IN  IF ~GoesThrough(scope, value)
        THEN UNCHANGED <<serviceState, calls, view>>
        ELSE /\ serviceState' = [k \in Keys |->
                                   IF k \in started THEN LoadingState(reset[k], value)
                                   ELSE reset[k]]
             /\ calls' = [calls EXCEPT
                            !.lookups = @ + Cardinality(started),
                            !.inflight = @ (+)
                                SetToBag({NewCall(k, value) : k \in started})]
             /\ view' = Rendered(serviceState', usage)

BulkConsult(scope, value) ==
    /\ calls.lookups + Cardinality(ScopeKeys(scope)) <= MaxLookups
    /\ value \in QueryValues(IF scope = "vehiculo" THEN "placa" ELSE "dni")
    /\ BulkStep(scope, value)
    /\ UNCHANGED <<pureVars, submitted, supabaseOk, user_credits, consultas, now,
                   ledgerVars, session, usage, usagePc, ownerVars>>

HandleConsult(plate) == BulkConsult("vehiculo", plate)

HandlePersonConsult(doc) == BulkConsult("persona", doc)

\* handleConsult again, with the plate it went through with kept in
\* submitted, and bounded by the lookups it starts (none for a key whose
\* lookup the render shows in flight)
SubmitPlate(plate) ==
    /\ calls.lookups + Cardinality(Started("vehiculo", plate)) <= MaxLookups
    /\ plate \in QueryValues("placa")
    /\ BulkStep("vehiculo", plate)
    /\ submitted' = IF GoesThrough("vehiculo", plate) THEN plate ELSE submitted
    /\ UNCHANGED <<pureVars, supabaseOk, user_credits, consultas, now, ledgerVars,
                   session, usage, usagePc, ownerVars>>

(***************************************************************************)
(* The screen mounts for a signed-in user (or without a session), with the *)
(* ledger holding no grant or one grant of the user.                       *)
(***************************************************************************)
InitialGrants ==
    {<<>>,
     <<NewGrant("u1", Plans["basico"], 0)>>,
     <<[NewGrant("u1", Plans["basico"], 0) EXCEPT !.total_consultas = 1]>>}

InitHome ==
    /\ supabaseOk = TRUE
    /\ user_credits \in InitialGrants
    /\ consultas = EmptyBag
    /\ now = 0
    /\ InitLedgerVars
    /\ session \in {"u1", NoUser}
    /\ serviceState = [k \in Keys |-> IdleService]
    /\ usage = <<>>
    /\ view = Rendered(serviceState, usage)
    /\ calls = [lookups |-> 0, inflight |-> EmptyBag, rejected |-> FALSE]
    /\ submitted = NoString
    /\ usagePc = [pc |-> IF session # NoUser THEN "read" ELSE "done", snap |-> <<>>]
    /\ InitOwnerVars
    /\ InitPureVars

\* the presses, the renders and the steps of an invocation that do not await
\* the client
NextScreen ==
    \/ \E k \in Keys, force \in BOOLEAN :
          \E queryValue \in QueryValues(Field(k)) : FetchService(k, queryValue, force)
    \/ \E plate \in QueryValues("placa") : HandleConsult(plate)
    \/ \E doc \in QueryValues("dni") : HandlePersonConsult(doc)
    \/ Render
    \/ \E c \in InFlight, ok \in BOOLEAN : HttpResponse(c, ok)
    \/ \E c \in InFlight : RefreshApply(c)

\* the screen with a client whose awaits return (data or error), never throw
NextLoaded ==
    \/ NextScreen
    \/ \E c \in InFlight : RegisterConsulta(c, RpcErrors)
    \/ \E c \in InFlight : RefreshRead(c, HomeReadsOk)

\* the screen from the mount on, with a client whose awaits may also throw
Next ==
    \/ NextScreen
    \/ \E c \in InFlight : RegisterConsulta(c, RpcFailures)
    \/ \E c \in InFlight : RefreshRead(c, HomeReads)
    \/ MountRefreshRead
    \/ MountRefreshApply

Spec == InitHome /\ [][Next]_vars

(***************************************************************************)
(* The screen of a signed-in user after the mount effect has set the first *)
(* snapshot (index.tsx 1027-1040) and the render has committed it.         *)
(***************************************************************************)
InitLoaded ==
    /\ supabaseOk = TRUE
    /\ user_credits \in InitialGrants
    /\ consultas = EmptyBag
    /\ now = 0
    /\ InitLedgerVars
    /\ session = "u1"
    /\ serviceState = [k \in Keys |-> IdleService]
    /\ \E s \in getUsageSnapshot(supabaseOk, session, user_credits, now, "ok") :
          usage = <<s>>
    /\ view = Rendered(serviceState, usage)
    /\ calls = [lookups |-> 0, inflight |-> EmptyBag, rejected |-> FALSE]
    /\ submitted = NoString
    /\ usagePc = [pc |-> "done", snap |-> <<>>]
    /\ InitOwnerVars
    /\ InitPureVars

SpecLoaded == InitLoaded /\ [][NextLoaded]_vars

\* the same screen when every lookup in flight eventually answers or fails:
\* fetch (index.tsx 1254) settles, for every key that has a lookup waiting
Responds(k) == \E c \in InFlight, ok \in BOOLEAN : c.key = k /\ HttpResponse(c, ok)

SpecLive == SpecLoaded /\ \A k \in Keys : WF_vars(Responds(k))

(***************************************************************************)
(* The screen without a session: refreshUsage returns at once (index.tsx   *)
(* 1028), so usage stays null.  SpecScreen is the screen of either kind of *)
(* visitor once the mount effect is over.                                  *)
(***************************************************************************)
InitSignedOut ==
    /\ InitHome
    /\ session = NoUser

SpecScreen == (InitLoaded \/ InitSignedOut) /\ [][NextLoaded]_vars

\* the loaded screen with the submitted plate on record; a card of the
\* vehicle scope pressed after a submit sends the plate that was submitted
NextSubmit ==
    \/ \E k \in Keys, force \in BOOLEAN :
          \E queryValue \in QueryValues(Field(k)) :
             /\ Scope(k) = "vehiculo" => submitted \in {NoString, queryValue}
             /\ FetchService(k, queryValue, force)
    \/ \E plate \in QueryValues("placa") : SubmitPlate(plate)
    \/ Render
    \/ \E c \in InFlight, ok \in BOOLEAN : HttpResponse(c, ok)
    \/ \E c \in InFlight : RegisterConsulta(c, RpcErrors)
    \/ \E c \in InFlight : RefreshRead(c, HomeReadsOk)
    \/ \E c \in InFlight : RefreshApply(c)

SpecSubmit == InitLoaded /\ [][NextSubmit]_vars



(***************************************************************************)
(*              HomeScreen: the owner-lookup effect (1042-1158)            *)
(***************************************************************************)
\* index.tsx 351-356, normalizeOwnerName, on a name given as its characters:
\* .replace(/\(.*?\)/g, ' ')
RECURSIVE StripParens(_)
StripParens(s) ==
    IF s = <<>> THEN <<>>
    ELSE IF Head(s) = "(" /\ \E i \in 2..Len(s) : s[i] = ")"
    THEN LET close == CHOOSE i \in 2..Len(s) :
                         s[i] = ")" /\ \A j \in 2..(i - 1) : s[j] # ")"
         IN  <<" ">> \o StripParens(SubSeq(s, close + 1, Len(s)))
    ELSE <<Head(s)>> \o StripParens(Tail(s))

\* .replace(/[.,]/g, ' ')
StripPunct(s) == [i \in DOMAIN s |-> IF s[i] \in {".", ","} THEN " " ELSE s[i]]

\* .replace(/\s+/g, ' ')
RECURSIVE CollapseSpaces(_)
CollapseSpaces(s) ==
    IF Len(s) < 2 THEN s
    ELSE IF s[1] = " " /\ s[2] = " " THEN CollapseSpaces(Tail(s))
    ELSE <<Head(s)>> \o CollapseSpaces(Tail(s))

\* .trim(), of a string whose runs of spaces are single
Trim(s) ==
    LET from == IF s # <<>> /\ s[1] = " " THEN 2 ELSE 1
        to == IF s # <<>> /\ s[Len(s)] = " " THEN Len(s) - 1 ELSE Len(s)
    IN  SubSeq(s, from, to)

normalizeOwnerName(name) == Trim(CollapseSpaces(StripPunct(StripParens(name))))

\* index.tsx 381-390, splitPersonName: null (FALSE) under three words
WordCount(clean) ==
    IF clean = <<>> THEN 0
    ELSE 1 + Cardinality({i \in DOMAIN clean : clean[i] = " "})
splitPersonName(clean) == WordCount(clean) >= 3

\* the values sunarpPrimaryNameRaw takes: the nombre of the first owner of
\* the registry answer, trimmed ('' while there is none)
OwnerNames ==
    {<<>>,
     <<"A">>,
     <<"A", ".", "(", "B", ")">>,
     <<"A", " ", "B", " ", "C">>}

\* index.tsx 1047: `ambos:${ownerNameClean}`
QueryKey(clean) == <<"ambos:">> \o clean

\* index.tsx 1060-1063: [raw, clean] without empty and repeated entries
TryNames(raw, clean) == IF raw = clean THEN <<clean>> ELSE <<raw, clean>>

\* index.tsx 1050-1054: the check inside the updater
OwnerCachedAnyKey(prev, queryKey) ==
    /\ (prev.data \/ prev.error # NoString)
    /\ ~prev.loading

OwnerCached(prev, queryKey) ==
    /\ prev.query = queryKey
    /\ (prev.data \/ prev.error # NoString)
    /\ ~prev.loading

OwnerLoading(queryKey) ==
    [loading |-> TRUE, type |-> NoString, data |-> FALSE, error |-> NoString,
     query |-> queryKey]

\* one run(): the two lookups, of which the company one walks tryNames
NewCycle(raw, clean) ==
    [key |-> QueryKey(clean), names |-> TryNames(raw, clean), tried |-> 0,
     sunat |-> "pending",
     dni |-> IF splitPersonName(clean) THEN "pending" ELSE "none",
     aborted |-> FALSE, done |-> FALSE]

\* index.tsx 1157: the cleanup, controller.abort().  A fetch given the signal
\* rejects with AbortError from then on, and run() returns on it (1146).
AbortDropped(c) == c

Abort(c) == [c EXCEPT !.aborted = TRUE]

Cleanup(cs) ==
    [i \in DOMAIN cs |-> IF i = Len(cs) THEN Abort(cs[i]) ELSE cs[i]]

(***************************************************************************)
(* A render commits another sunarpPrimaryNameRaw: the cleanup of the last  *)
(* effect run, then the effect (1043-1157).  The updater given to          *)
(* setOwnerLookup runs during the call only when React computes the state  *)
(* eagerly; otherwise it runs with the next render, after the test of      *)
(* shouldFetch at 1056.                                                    *)
(***************************************************************************)
NameChange(name) ==
    LET clean == normalizeOwnerName(name)
        queryKey == QueryKey(clean)
        cached == OwnerCached(ownerLookup, queryKey)
    IN  /\ name # ownerName
        /\ ownerName' = name
        /\ IF clean = <<>>
           THEN /\ ownerLookup' = IdleOwnerLookup
                /\ cycles' = Cleanup(cycles)
           ELSE /\ ownerLookup' = IF cached THEN ownerLookup ELSE OwnerLoading(queryKey)
                /\ \E eager \in BOOLEAN :
                      LET shouldFetch == ~(cached /\ eager)
                      IN  IF shouldFetch
                          THEN /\ Len(cycles) < MaxCycles
                               /\ cycles' = Append(Cleanup(cycles), NewCycle(name, clean))
                          ELSE cycles' = Cleanup(cycles)
        /\ UNCHANGED <<pureVars, supabaseOk, user_credits, consultas, now, ledgerVars,
                       homeVars, applied>>

\* index.tsx 1183: handleConsult sets ownerLookup back to idle
OwnerReset ==
    /\ ownerLookup # IdleOwnerLookup
    /\ ownerLookup' = IdleOwnerLookup
    /\ UNCHANGED <<pureVars, supabaseOk, user_credits, consultas, now, ledgerVars,
                   homeVars, ownerName, cycles, applied>>

\* index.tsx 1100-1144: what run() sets once Promise.all has settled
OwnerResult(c) ==
    IF c.sunat = "match"
    THEN [loading |-> FALSE, type |-> "empresa", data |-> TRUE, error |-> NoString,
          query |-> c.key]
    ELSE IF c.dni = "match"
    THEN [loading |-> FALSE, type |-> "persona", data |-> TRUE, error |-> NoString,
          query |-> c.key]
    ELSE [loading |-> FALSE, type |-> NoString, data |-> FALSE,
          error |-> "Sin resultados por nombres.", query |-> c.key]

\* index.tsx 1145-1154: the catch, for an error that is not AbortError
OwnerError(c) ==
    [loading |-> FALSE, type |-> NoString, data |-> FALSE,
     error |-> "Error consultando.", query |-> c.key]

\* run() has returned: its promises and locals are gone
Returned(c) ==
    [c EXCEPT !.tried = 0, !.sunat = "settled", !.dni = "settled", !.done = TRUE]

\* Promise.all: settled by the first rejection, or when both have resolved
Progress(i, d) ==
    IF d.sunat # "pending" /\ d.dni # "pending"
    THEN /\ cycles' = [cycles EXCEPT ![i] = Returned(d)]
         /\ ownerLookup' = OwnerResult(d)
         /\ applied' = i
    ELSE /\ cycles' = [cycles EXCEPT ![i] = d]
         /\ UNCHANGED <<ownerLookup, applied>>

Reject(i) ==
    /\ cycles' = [cycles EXCEPT ![i] = Returned(cycles[i])]
    /\ ownerLookup' = OwnerError(cycles[i])
    /\ applied' = i

Running(i) == ~cycles[i].aborted /\ ~cycles[i].done

\* index.tsx 1066-1082: the answer to the company lookup of one name
SunatResponse(i, r) ==
    /\ Running(i)
    /\ cycles[i].sunat = "pending"
    /\ CASE r = "failed" -> Reject(i)
         [] r = "match" -> Progress(i, [cycles[i] EXCEPT !.sunat = "match"])
         [] OTHER ->
              IF cycles[i].tried + 1 < Len(cycles[i].names)
              THEN Progress(i, [cycles[i] EXCEPT !.tried = @ + 1])
              ELSE Progress(i, [cycles[i] EXCEPT !.tried = @ + 1, !.sunat = "none"])
    /\ UNCHANGED <<pureVars, supabaseOk, user_credits, consultas, now, ledgerVars,
                   homeVars, ownerName>>

\* index.tsx 1084-1098: the answer to the person lookup
DniResponse(i, r) ==
    /\ Running(i)
    /\ cycles[i].dni = "pending"
    /\ IF r = "failed" THEN Reject(i)
       ELSE Progress(i, [cycles[i] EXCEPT !.dni = r])
    /\ UNCHANGED <<pureVars, supabaseOk, user_credits, consultas, now, ledgerVars,
                   homeVars, ownerName>>

InitOwner ==
    /\ supabaseOk = TRUE
    /\ InitStore
    /\ InitLedgerVars
    /\ InitHomeVars
    /\ InitOwnerVars
    /\ InitPureVars

NextOwner ==
    \/ \E name \in OwnerNames : NameChange(name)
    \/ OwnerReset
    \/ \E i \in DOMAIN cycles, r \in {"match", "none", "failed"} : SunatResponse(i, r)
    \/ \E i \in DOMAIN cycles, r \in {"match", "none", "failed"} : DniResponse(i, r)

SpecOwner == InitOwner /\ [][NextOwner]_vars

(***************************************************************************)
(*          index.tsx 409-441: enrichSunarpWithDni, one call of it         *)
(***************************************************************************)
Min(a, b) == IF a <= b THEN a ELSE b

Digits == {"0", "1", "2", "3", "4", "5", "6", "7", "8", "9"}
IsDigit(ch) == ch \in Digits

\* index.tsx 56, formatDni, on a value given as its characters:
\* value.replace(/\D/g, '').slice(0, 8)
StripNonDigits(value) == SelectSeq(value, IsDigit)

formatDni(value) ==
    SubSeq(StripNonDigits(value), 1, Min(8, Len(StripNonDigits(value))))

\* the documento of an owner as parseSunarp leaves it (index.tsx 211, 230):
\* absent or empty, a national ID short of a digit, a national ID, a national
\* ID written with a hyphen, an 11-digit company number
Documents ==
    {<<>>,
     <<"4", "1", "2", "3", "4", "5", "6">>,
     <<"4", "1", "2", "3", "4", "5", "6", "7">>,
     <<"0", "7", "6", "5", "4", "3", "2", "-", "1">>,
     <<"2", "0", "1", "2", "3", "4", "5", "6", "7", "8", "9">>}

\* SunarpOwner (index.tsx 87-94): nombre, documento, and reniec once enriched
Owners == {[nombre |-> "N", documento |-> d, reniec |-> NoString] : d \in Documents}

RECURSIVE OwnerLists(_)
OwnerLists(n) ==
    IF n = 0 THEN {<<>>}
    ELSE OwnerLists(n - 1) \cup
         {Append(l, o) : l \in {m \in OwnerLists(n - 1) : Len(m) = n - 1}, o \in Owners}

\* index.tsx 415-420: the callback of map up to its first await; the promise
\* of an owner whose dni is empty or short is fulfilled with the owner itself
OwnerPromise(prop) ==
    LET dni == formatDni(prop.documento)
    IN  IF dni = <<>> \/ Len(dni) < 8
        THEN [state |-> "fulfilled", lookup |-> FALSE, dni |-> <<>>,
              answer |-> "none", value |-> prop]
        ELSE [state |-> "pending", lookup |-> TRUE, dni |-> dni,
              answer |-> "none", value |-> prop]

\* index.tsx 410-415: enrichSunarpWithDni(parsed); parsed is given by its
\* propietarios (empty for null, for no array and for an empty array alike)
EnrichSunarpWithDni(propietarios) ==
    /\ enrichment.phase = "idle"
    /\ enrichment' =
          IF propietarios = <<>>
          THEN [phase |-> "resolved", parsed |-> propietarios, slots |-> <<>>,
                result |-> propietarios]
          ELSE [phase |-> "running", parsed |-> propietarios,
                slots |-> [i \in DOMAIN propietarios |-> OwnerPromise(propietarios[i])],
                result |-> <<>>]
    /\ UNCHANGED <<soat, classified, itv, supabaseOk, user_credits, consultas, now, ledgerVars,
                   homeVars, ownerVars>>

\* index.tsx 435-437: the catch of the callback
CaughtRethrown(slot) == [slot EXCEPT !.state = "rejected", !.answer = "failed"]

Caught(slot) == [slot EXCEPT !.state = "fulfilled", !.answer = "failed"]

\* index.tsx 421-434: the answer to the lookup of owner i: a body with a name,
\* a body without one, or anything that throws (network, status, body)
DniPeruAnswers == {"named", "unnamed", "failed"}

DniPeruResponse(i, r) ==
    /\ enrichment.phase = "running"
    /\ enrichment.slots[i].state = "pending"
    /\ enrichment' =
          [enrichment EXCEPT !.slots[i] =
              IF r = "failed" THEN Caught(@)
              ELSE [@ EXCEPT !.state = "fulfilled", !.answer = r,
                             !.value = [@ EXCEPT !.reniec = r]]]
    /\ UNCHANGED <<soat, classified, itv, supabaseOk, user_credits, consultas, now, ledgerVars,
                   homeVars, ownerVars>>

\* index.tsx 414, 440: Promise.all settles, rejected by a rejected promise,
\* fulfilled with the values in the order of the owners otherwise
EnrichSettle ==
    /\ enrichment.phase = "running"
    /\ LET slots == enrichment.slots
       IN  \/ /\ \E i \in DOMAIN slots : slots[i].state = "rejected"
              /\ enrichment' = [enrichment EXCEPT !.phase = "rejected"]
           \/ /\ \A i \in DOMAIN slots : slots[i].state = "fulfilled"
              /\ enrichment' = [enrichment EXCEPT
                                  !.phase = "resolved",
                                  !.result = [i \in DOMAIN slots |-> slots[i].value]]
    /\ UNCHANGED <<soat, classified, itv, supabaseOk, user_credits, consultas, now, ledgerVars,
                   homeVars, ownerVars>>

InitEnrich ==
    /\ supabaseOk = TRUE
    /\ InitStore
    /\ InitLedgerVars
    /\ InitHomeVars
    /\ InitOwnerVars
    /\ InitPureVars

NextEnrich ==
    \/ \E propietarios \in OwnerLists(MaxOwners) : EnrichSunarpWithDni(propietarios)
    \/ \E i \in DOMAIN enrichment.slots, r \in DniPeruAnswers : DniPeruResponse(i, r)
    \/ EnrichSettle

SpecEnrich == InitEnrich /\ [][NextEnrich]_vars

(***************************************************************************)
(*                    index.tsx 126-148: parseSoat(raw)                    *)
(* A text is a sequence of atoms: the characters that matter to the parser *)
(* one by one (newline, carriage return, tab, space), and words, each a    *)
(* run of characters without any of those.                                 *)
(***************************************************************************)
NL == "\\n"
CR == "\\r"
TAB == "\\t"
SP == " "
Whitespace == {NL, CR, TAB, SP}

\* a word in which l.toLowerCase().includes('compañía aseguradora') finds the
\* fragment (the space inside it is part of the word here)
HeaderFragment == "Compañía Aseguradora"

\* raw.split(/\r?\n/): the lines, in order
RECURSIVE SplitLines(_, _)
SplitLines(text, line) ==
    IF text = <<>> THEN <<line>>
    ELSE IF Head(text) = NL THEN <<line>> \o SplitLines(Tail(text), <<>>)
    ELSE IF Head(text) = CR /\ Len(text) > 1 /\ text[2] = NL
    THEN <<line>> \o SplitLines(Tail(Tail(text)), <<>>)
    ELSE SplitLines(Tail(text), Append(line, Head(text)))

\* l.trim()
RECURSIVE TrimStart(_)
TrimStart(l) ==
    IF l # <<>> /\ Head(l) \in Whitespace THEN TrimStart(Tail(l)) ELSE l

RECURSIVE TrimEnd(_)
TrimEnd(l) ==
    IF l # <<>> /\ l[Len(l)] \in Whitespace THEN TrimEnd(SubSeq(l, 1, Len(l) - 1)) ELSE l

TrimLine(l) == TrimEnd(TrimStart(l))

\* .map((l) => l.trim()).filter(Boolean)
NonEmpty(l) == l # <<>>
SoatLines(raw) ==
    LET split == SplitLines(raw, <<>>)
    IN  SelectSeq([i \in DOMAIN split |-> TrimLine(split[i])], NonEmpty)

\* l.split(/\t+/).filter(Boolean): the runs of atoms between tabs
RECURSIVE SplitTabs(_, _)
SplitTabs(l, field) ==
    IF l = <<>> THEN <<field>>
    ELSE IF Head(l) = TAB THEN <<field>> \o SplitTabs(Tail(l), <<>>)
    ELSE SplitTabs(Tail(l), Append(field, Head(l)))

Fields(l) == SelectSeq(SplitTabs(l, <<>>), NonEmpty)

HasHeaderFragment(l) == \E i \in DOMAIN l : l[i] = HeaderFragment

\* findIndex and find: the least index of a set of hits, 0 when there is none
FirstOf(hits) ==
    IF hits = {} THEN 0 ELSE CHOOSE i \in hits : \A j \in hits : i <= j

\* index.tsx 135: the first line with the fragment
FirstHeader(lines) == FirstOf({i \in DOMAIN lines : HasHeaderFragment(lines[i])})

\* index.tsx 138, 141: the test of a data row
IsRow(l) == Len(Fields(l)) >= 5

\* index.tsx 138, 141: the first data row from a line on
FirstRow(lines, from) == FirstOf({i \in from..Len(lines) : IsRow(lines[i])})

\* index.tsx 135-148; infoActualizada is undefined for a text without the
\* 'información actualizada' line, and no text here has one
parseSoat(raw) ==
    LET lines == SoatLines(raw)
        headerIdx == FirstHeader(lines)
        after == IF headerIdx > 0 THEN FirstRow(lines, headerIdx + 1) ELSE 0
        rowIdx == IF after > 0 THEN after ELSE FirstRow(lines, 1)
    IN  IF rowIdx = 0 THEN <<>>
        ELSE LET parts == Fields(lines[rowIdx])
             IN  IF Len(parts) < 8 THEN <<>>
                 ELSE <<[aseguradora |-> parts[1], clase |-> parts[2], uso |-> parts[3],
                         accidentes |-> parts[4], poliza |-> parts[5],
                         certificado |-> parts[6], inicio |-> parts[7], fin |-> parts[8],
                         infoActualizada |-> NoString]>>

\* the texts given to it: a header line, a line break, and a data row of
\* tokens joined by tabs
Join(tokens, sep) ==
    LET RECURSIVE J(_)
        J(i) == IF i > Len(tokens) THEN <<>>
                ELSE IF i = Len(tokens) THEN tokens[i]
                ELSE tokens[i] \o sep \o J(i + 1)
    IN  J(1)

\* header lines: the one column name, or the names of the 5 or 8 columns
ColumnNames ==
    <<<<HeaderFragment>>, <<"Clase">>, <<"Uso">>, <<"Accidentes">>, <<"Poliza">>,
      <<"Certificado">>, <<"Inicio">>, <<"Fin">>>>
HeaderLines == {Join(SubSeq(ColumnNames, 1, n), <<TAB>>) : n \in {1, 5, 8}}

\* the tokens of a data row: the first one of two words
Token(i) == IF i = 1 THEN <<"LA", SP, "POSITIVA">>
            ELSE IF i = 2 THEN <<"a2">> ELSE IF i = 3 THEN <<"a3">>
            ELSE IF i = 4 THEN <<"a4">> ELSE IF i = 5 THEN <<"a5">>
            ELSE IF i = 6 THEN <<"a6">> ELSE IF i = 7 THEN <<"a7">>
            ELSE IF i = 8 THEN <<"a8">> ELSE IF i = 9 THEN <<"a9">>
            ELSE <<"a10">>
RowTokens(n) == [i \in 1..n |-> Token(i)]

SoatTexts ==
    {[header |-> h, tokens |-> RowTokens(n), sep |-> sep, break |-> br] :
        h \in HeaderLines, n \in 1..MaxRowTokens,
        sep \in {<<TAB>>, <<TAB, TAB>>}, br \in {<<NL>>, <<CR, NL>>}}

RawOf(made) == made.header \o made.break \o Join(made.tokens, made.sep)

\* the lookup of the insurance service has answered with this text
SoatAnswer(made) ==
    /\ soat = NoSoatCall
    /\ soat' = [made |-> <<made>>, raw |-> RawOf(made), called |-> FALSE, parsed |-> <<>>]
    /\ UNCHANGED <<enrichment, classified, itv, supabaseOk, user_credits, consultas, now, ledgerVars,
                   homeVars, ownerVars>>

\* index.tsx 1264: config.parser(data?.resultado_crudo ?? '', data)
ParseSoat ==
    /\ soat.made # <<>>
    /\ ~soat.called
    /\ soat' = [soat EXCEPT !.called = TRUE, !.parsed = parseSoat(soat.raw)]
    /\ UNCHANGED <<enrichment, classified, itv, supabaseOk, user_credits, consultas, now, ledgerVars,
                   homeVars, ownerVars>>

InitSoat ==
    /\ supabaseOk = TRUE
    /\ InitStore
    /\ InitLedgerVars
    /\ InitHomeVars
    /\ InitOwnerVars
    /\ InitPureVars

NextSoat ==
    \/ \E made \in SoatTexts : SoatAnswer(made)
    \/ ParseSoat

SpecSoat == InitSoat /\ [][NextSoat]_vars

(***************************************************************************)
(*          isCompanyName and ownerType (index.tsx 358-379, 984-992)       *)
(*                                                                         *)
(* A name is the sequence of its characters.                               *)
(***************************************************************************)
\* the letters with their upper-case forms, as String.prototype.toUpperCase
\* maps them; every other character maps to itself
LowerLetters ==
    <<"a", "b", "c", "d", "e", "f", "g", "h", "i", "j", "k", "l", "m", "n", "o",
      "p", "q", "r", "s", "t", "u", "v", "w", "x", "y", "z", "ñ", "á", "é", "í",
      "ó", "ú">>
UpperLetters ==
    <<"A", "B", "C", "D", "E", "F", "G", "H", "I", "J", "K", "L", "M", "N", "O",
      "P", "Q", "R", "S", "T", "U", "V", "W", "X", "Y", "Z", "Ñ", "Á", "É", "Í",
      "Ó", "Ú">>

toUpperCaseChar(ch) ==
    IF \E i \in DOMAIN LowerLetters : LowerLetters[i] = ch
    THEN UpperLetters[CHOOSE i \in DOMAIN LowerLetters : LowerLetters[i] = ch]
    ELSE ch

toUpperCase(s) == [i \in DOMAIN s |-> toUpperCaseChar(s[i])]

\* .replace(/Ñ/g, 'N')
FoldEnye(s) == [i \in DOMAIN s |-> IF s[i] = "Ñ" THEN "N" ELSE s[i]]

\* the class \w of a regular expression without the u flag: [A-Za-z0-9_]
WordChars ==
    {LowerLetters[i] : i \in 1..26} \cup {UpperLetters[i] : i \in 1..26}
        \cup Digits \cup {"_"}

IsWordChar(s, i) == i \in DOMAIN s /\ s[i] \in WordChars

\* the assertion \b between the characters i - 1 and i of s
WordBoundary(s, i) == IsWordChar(s, i - 1) # IsWordChar(s, i)

\* index.tsx 358-372
COMPANY_TOKENS ==
    {<<"S", "A", "C">>,
     <<"S", "R", "L">>,
     <<"E", "I", "R", "L">>,
     <<"S", "A", "A">>,
     <<"S", "A">>,
     <<"S", "O", "C", "I", "E", "D", "A", "D">>,
     <<"E", "M", "P", "R", "E", "S", "A">>,
     <<"C", "O", "R", "P", "O", "R", "A", "C", "I", "O", "N">>,
     <<"C", "O", "M", "P", "A", "N", "I", "A">>,
     <<"C", "I", "A">>,
     <<"C", "O", "O", "P", "E", "R", "A", "T", "I", "V", "A">>,
     <<"A", "S", "O", "C", "I", "A", "C", "I", "O", "N">>,
     <<"F", "U", "N", "D", "A", "C", "I", "O", "N">>}

\* new RegExp(`\\b${token}\\b`, 'i').test(s)
RegExpTest(token, s) ==
    \E from \in 1..(Len(s) - Len(token) + 1) :
       /\ WordBoundary(s, from)
       /\ toUpperCase(SubSeq(s, from, from + Len(token) - 1)) = token
       /\ WordBoundary(s, from + Len(token))

\* index.tsx 374-379
isCompanyName(name) ==
    LET normalized == FoldEnye(toUpperCase(normalizeOwnerName(name)))
    IN  \E token \in COMPANY_TOKENS : RegExpTest(token, normalized)

\* index.tsx 984-992, from sunarpPrimaryName
ownerType(sunarpPrimaryName) ==
    LET ownerNameClean == normalizeOwnerName(sunarpPrimaryName)
    IN  IF ownerNameClean = <<>> THEN NoString
        ELSE IF isCompanyName(ownerNameClean) THEN "empresa"
        ELSE "persona"

\* the words owner names are made of: plain words, a company suffix, a name
\* with an accented letter, mixed case, the letter Ñ, a parenthesised suffix
Vocabulary ==
    {<<"A", "C", "M", "E">>,
     <<"S", "A", "C">>,
     <<"J", "U", "A", "N">>,
     <<"P", "E", "R", "E", "Z">>,
     <<"S", "A", "Ú", "L">>,
     <<"C", "i", "a">>,
     <<"C", "O", "M", "P", "A", "Ñ", "I", "A">>,
     <<"(", "S", "A", ")">>}

NameSeparators == {" ", "-"}

RECURSIVE NamesOf(_)
NamesOf(n) ==
    IF n = 1 THEN Vocabulary
    ELSE {name \o <<sep>> \o word :
             name \in NamesOf(n - 1), sep \in NameSeparators, word \in Vocabulary}

TransportesAcmeSac ==
    <<"T", "R", "A", "N", "S", "P", "O", "R", "T", "E", "S", " ",
      "A", "C", "M", "E", " ", "S", "A", "C">>

JuanCarlosPerezLopez ==
    <<"J", "U", "A", "N", " ", "C", "A", "R", "L", "O", "S", " ",
      "P", "E", "R", "E", "Z", " ", "L", "O", "P", "E", "Z">>

\* the values sunarpPrimaryName takes here
SunarpNames ==
    {<<>>, TransportesAcmeSac, JuanCarlosPerezLopez}
        \cup UNION {NamesOf(n) : n \in 1..MaxNameWords}

\* a render computes ownerType from sunarpPrimaryName
OwnerTypeOf(name) ==
    /\ classified' = [name |-> name, type |-> ownerType(name), called |-> TRUE]
    /\ UNCHANGED <<enrichment, soat, itv, supabaseOk, user_credits, consultas, now,
                   ledgerVars, homeVars, ownerVars>>

InitType ==
    /\ supabaseOk = TRUE
    /\ InitStore
    /\ InitLedgerVars
    /\ InitHomeVars
    /\ InitOwnerVars
    /\ InitPureVars

NextType == \E name \in SunarpNames : OwnerTypeOf(name)

SpecType == InitType /\ [][NextType]_vars

(***************************************************************************)
(*        parseItv (index.tsx 156-196) and renderItvState (889-917)        *)
(*                                                                         *)
(* Texts are sequences of atoms as for parseSoat; a string of the record   *)
(* is a sequence of atoms, undefined is the empty sequence (no string of   *)
(* the record can be empty and defined: every one is tested for truth).    *)
(***************************************************************************)
Plate == "ABC123"
DateAtoms == {"01/02/2024", "01/02/2025"}
CentreAtom == "CENTRO DE INSPECCION LIMA"

\* /\d{2}\/\d{2}\/\d{4}/.test(l), l.includes(plateUpper)
HasDate(l) == \E i \in DOMAIN l : l[i] \in DateAtoms
HasPlate(l, plateUpper) == \E i \in DOMAIN l : <<l[i]>> = plateUpper

\* index.tsx 162: the first line with the plate when the payload names one,
\* else the first line with a date
ItvRow(lines, plateUpper) ==
    FirstOf({i \in DOMAIN lines :
                IF plateUpper # <<>> THEN HasPlate(lines[i], plateUpper)
                ELSE HasDate(lines[i])})

\* tokens[i] of a JavaScript array, undefined past its end
TokenAt(tokens, i) == IF i + 1 \in DOMAIN tokens THEN tokens[i + 1] ELSE <<>>

\* a || b on strings
OrElse(a, b) == IF a # <<>> THEN a ELSE b

\* index.tsx 182-183
FlagStatus(full) ==
    IF full.vigente = "true" THEN <<"Vigente">>
    ELSE IF full.vigente = "false" THEN <<"Vencido">>
    ELSE <<>>

\* index.tsx 192: estado || vigencia
Estado(estado, vigencia) == OrElse(estado, vigencia)

\* index.tsx 156-196
parseItv(raw, full) ==
    LET lines == SoatLines(raw)
        rowIdx == ItvRow(lines, full.placa)
        tokens == IF rowIdx > 0 THEN Fields(lines[rowIdx]) ELSE <<>>
        inicio == TokenAt(tokens, 2)
        fin == TokenAt(tokens, 3)
        estado == IF TokenAt(tokens, 5) # <<>> THEN TokenAt(tokens, 5)
                  ELSE TokenAt(tokens, 4)
        dates == SelectSeq(raw, LAMBDA a : a \in DateAtoms)
        fallbackInicio == IF Len(dates) >= 2 THEN <<dates[1]>> ELSE <<>>
        fallbackFin == IF Len(dates) >= 2 THEN <<dates[2]>> ELSE <<>>
        centroMatch == IF \E i \in DOMAIN raw : raw[i] = CentreAtom
                       THEN <<CentreAtom>> ELSE <<>>
        vigencia == OrElse(FlagStatus(full), estado)
    IN  IF /\ inicio = <<>> /\ fin = <<>> /\ fallbackInicio = <<>> /\ fallbackFin = <<>>
           /\ estado = <<>> /\ vigencia = <<>> /\ centroMatch = <<>>
        THEN <<>>
        ELSE <<[inicio |-> OrElse(inicio, fallbackInicio),
                fin |-> OrElse(fin, fallbackFin),
                estado |-> Estado(estado, vigencia),
                vigencia |-> vigencia,
                centro |-> centroMatch]>>

\* index.tsx 908: the label of the badge renderItvState shows for a state with
\* data (undefined: no badge, or the generic rendering of a null record)
Badge(parsed) == IF parsed = <<>> THEN <<>> ELSE parsed[1].estado

\* index.tsx 897-902: the tone of the badge, from the label in lower case
\* (includes('vig'): accent, includes('venc'): danger, else warning)
Tone(label) ==
    IF label # <<>> /\ label[1] \in {"VIGENTE", "Vigente"} THEN "accent"
    ELSE IF label # <<>> /\ label[1] \in {"VENCIDO", "Vencido"} THEN "danger"
    ELSE "warning"

\* the answers of the inspection service: a row of up to MaxItvTokens tokens
\* [plate, certificate, from, until, result, status, remarks], a line naming
\* the centre or not, and the payload with or without placa and vigente
ItvToken(i, resultado, estado) ==
    CASE i = 1 -> <<Plate>>
      [] i = 2 -> <<"C-1">>
      [] i = 3 -> <<"01/02/2024">>
      [] i = 4 -> <<"01/02/2025">>
      [] i = 5 -> <<resultado>>
      [] i = 6 -> <<estado>>
      [] OTHER -> <<"SIN OBSERVACIONES">>

ItvAnswers ==
    {[tokens |-> [i \in 1..n |-> ItvToken(i, resultado, estado)],
      centre |-> centre,
      full |-> [placa |-> placa, vigente |-> vigente]] :
        n \in 0..MaxItvTokens, resultado \in {"APROBADO", "DESAPROBADO"},
        estado \in {"VIGENTE", "VENCIDO"}, centre \in BOOLEAN,
        placa \in {<<>>, <<Plate>>}, vigente \in {"true", "false", "absent"}}

ItvRawOf(made) ==
    Join(made.tokens, <<TAB>>)
        \o (IF made.centre THEN <<NL, CentreAtom, SP, "-", SP, "SEDE">> ELSE <<>>)

\* the lookup of the inspection service has answered
ItvAnswer(made) ==
    /\ itv = NoItvCall
    /\ itv' = [itv EXCEPT !.made = <<made>>]
    /\ UNCHANGED <<enrichment, soat, classified, supabaseOk, user_credits, consultas,
                   now, ledgerVars, homeVars, ownerVars>>

\* index.tsx 1264: config.parser(data?.resultado_crudo ?? '', data), and the
\* card rendered from the state fetchService sets (1519)
ParseItv ==
    /\ itv.made # <<>>
    /\ ~itv.called
    /\ LET parsed == parseItv(ItvRawOf(itv.made[1]), itv.made[1].full)
       IN  itv' = [itv EXCEPT !.called = TRUE, !.parsed = parsed, !.badge = Badge(parsed)]
    /\ UNCHANGED <<enrichment, soat, classified, supabaseOk, user_credits, consultas,
                   now, ledgerVars, homeVars, ownerVars>>

InitItv ==
    /\ supabaseOk = TRUE
    /\ InitStore
    /\ InitLedgerVars
    /\ InitHomeVars
    /\ InitOwnerVars
    /\ InitPureVars

NextItv ==
    \/ \E made \in ItvAnswers : ItvAnswer(made)
    \/ ParseItv

SpecItv == InitItv /\ [][NextItv]_vars




(***************************************************************************)
(*                         CLAIMS: the credit ledger                       *)
(***************************************************************************)
Snap == snapshot[1]

C7_ExpiredNeverSelected ==
    (snapshot # <<>> /\ Snap.credit # <<>>) => Snap.credit[1].valid_until >= snapCall.at

\* C7 witness: a call whose reads succeeded, for a user all of whose rows had
\* expired when it ran, more than one of them, which selected no grant.
C7_Witness ==
    /\ snapshot # <<>>
    /\ snapCall.read = "ok"
    /\ Snap.credit = <<>>
    /\ Cardinality({i \in DOMAIN user_credits :
                      /\ user_credits[i].user_id = snapCall.userId
                      /\ user_credits[i].created_at <= snapCall.at
                      /\ user_credits[i].valid_until < snapCall.at}) > 1

\* C10 (as stated): when userId is absent, the client is missing or the read of
\* user_credits fails, getUsageSnapshot returns the snapshot of a user with no
\* active grant, creditsRemaining included (0).
C10_FailSafeIsNoGrant ==
    (snapshot # <<>> /\ snapCall.read \in {"early", "credit_failed"}) =>
        Snap = ComputeSnapshot(<<>>, NoString)

\* the duration changePlan gives a grant of a plan
DurationDays(planId) ==
    IF Plans[planId].duration_days # NULL THEN Plans[planId].duration_days ELSE 30

\* C11: every changePlan call that changes user_credits appends exactly one
\* row and leaves every row that was there as it was; the row is the caller's,
\* of the plan asked for, with consultas_usadas = 0 and valid_until = now +
\* duration_days of the plan (30 when the plan has none).  A call with a plan
\* id that does not resolve leaves user_credits unchanged.
C11_AppendOnly ==
    [][\A uid \in Users \cup {NoUser}, planId \in PlanIds \cup {"desconocido"} :
          ChangePlan(uid, planId) =>
             IF planId \in PlanIds
             THEN /\ Len(user_credits') = Len(user_credits) + 1
                  /\ SubSeq(user_credits', 1, Len(user_credits)) = user_credits
                  /\ LET row == user_credits'[Len(user_credits')]
                     IN  /\ row.user_id = uid
                         /\ row.plan_id = planId
                         /\ row.consultas_usadas = 0
                         /\ row.valid_until = now + DurationDays(planId)
             ELSE user_credits' = user_credits]_vars

\* C11 witness: the user held a grant with one consultation used, changePlan
\* was called for the plan without a duration, and the table holds the old
\* row as it was followed by the new one, valid for 30 days.
C11_Witness ==
    /\ Len(user_credits) = 2
    /\ user_credits[1].consultas_usadas > 0
    /\ user_credits[2].user_id = user_credits[1].user_id
    /\ user_credits[2].plan_id = "ilimitado"
    /\ user_credits[2].consultas_usadas = 0
    /\ user_credits[2].valid_until = user_credits[2].created_at + 30

(***************************************************************************)
(*                         CLAIMS: the orchestrator                        *)
(***************************************************************************)
\* the render the handlers run in shows a snapshot with exactly 0 credits
ShowsZero == view.usage # <<>> /\ view.usage[1].creditsRemaining = 0

\* a fetchService call that reaches the HTTP lookup
Dispatches(k, queryValue, force) ==
    /\ FetchService(k, queryValue, force)
    /\ calls'.lookups = calls.lookups + 1

\* a fetchService call that returns without any effect
Ignored(k, queryValue, force) ==
    /\ FetchService(k, queryValue, force)
    /\ UNCHANGED vars

\* a call, single or through a bulk handler, that has an effect on the
\* service states, the lookups or the two tables
Effective(A) ==
    A /\ ~UNCHANGED <<serviceState, calls, consultas, user_credits>>

ValidQueries(k) == {q \in QueryValues(Field(k)) : ~TooShort(k, q)}

HttpInFlight(k) ==
    LET sel == {c \in InFlight : c.key = k /\ c.pc = "http"}
    IN  BagCardinality([c \in sel |-> calls.inflight[c]])

\* C1: in every state whose rendered usage snapshot has creditsRemaining
\* exactly 0, no fetchService call (any key, any query, forced or not, single
\* or made by a bulk handler) issues a lookup, changes a service state or
\* writes to consultas or user_credits.
C1_CreditGate ==
    ShowsZero =>
        /\ \A k \in Keys, force \in BOOLEAN : \A q \in QueryValues(Field(k)) :
              ~ENABLED Effective(FetchService(k, q, force))
        /\ \A plate \in QueryValues("placa") : ~ENABLED Effective(HandleConsult(plate))
        /\ \A doc \in QueryValues("dni") : ~ENABLED Effective(HandlePersonConsult(doc))

\* C1 witness: a lookup has used the last credit, the screen shows 0, and a
\* forced call with a valid plate is made there and returns without effect.
C1_Witness ==
    /\ ShowsZero
    /\ calls.lookups = 1
    /\ user_credits # <<>>
    /\ ENABLED Ignored("soat", "ABC123", TRUE)

\* the step of one invocation through registerConsulta: c before, d after
RegisterStep(c, d) ==
    /\ c.pc = "register"
    /\ d.pc = "refresh"
    /\ calls' = SetCall(c, d)

RecordsAdded == BagCardinality(consultas') - BagCardinality(consultas)

C3_Idempotent ==
    \A k \in Keys : \A q \in ValidQueries(k) :
        view.serviceState[k] = SuccessState(q) =>
            ~ENABLED Effective(FetchService(k, q, FALSE))

\* C3 witness: one lookup has been made and has succeeded, the gate is open,
\* and the same call is made again and returns without effect.
C3_Witness ==
    /\ calls.lookups = 1
    /\ view.serviceState["soat"] = SuccessState("ABC123")
    /\ hasCredits(view.usage)
    /\ ENABLED Ignored("soat", "ABC123", FALSE)

\* C4 (as stated): a forced fetchService call with a valid query value that
\* passes the credit gate issues a new lookup whatever data, error, query and
\* loading the key holds.
C4_ForceAlwaysLooksUpAsStated ==
    (calls.lookups < MaxLookups /\ hasCredits(view.usage)) =>
        \A k \in Keys : \A q \in ValidQueries(k) : ENABLED Dispatches(k, q, TRUE)

\* C4 (amended): a forced fetchService call with a valid query value that
\* passes the credit gate issues a new lookup whatever data, error and query
\* the key holds, provided the key is not loading; for a key that is loading
\* the forced call is ignored.
C4_ForceLooksUpUnlessLoading ==
    (calls.lookups < MaxLookups /\ hasCredits(view.usage)) =>
        \A k \in Keys : \A q \in ValidQueries(k) :
            IF view.serviceState[k].loading
            THEN ENABLED Ignored(k, q, TRUE)
            ELSE ENABLED Dispatches(k, q, TRUE)

\* C4 witness: the key holds the successful result of the very same query, and
\* the forced call issues a new lookup.
C4_Witness ==
    /\ view.serviceState["soat"] = SuccessState("ABC123")
    /\ hasCredits(view.usage)
    /\ ENABLED Dispatches("soat", "ABC123", TRUE)

\* C8 (as stated): for every service key at most one HTTP lookup is in flight.
C8_MutualExclusion == \A k \in Keys : HttpInFlight(k) <= 1

\* C12 (as stated): when an invocation registers, an answer false of
\* consume_credit writes no row, and a failure of the consume_credit call,
\* returned or thrown, is followed by the insert of the row all the same.
C12_FailureStillInsertsAsStated ==
    [][\A c \in InFlight : \A d \in BagToSet(calls'.inflight) :
          RegisterStep(c, d) =>
             /\ d.consume = "false" => consultas' = consultas
             /\ d.consume \in {"error", "thrown"} =>
                   consultas' = consultas (+) SetToBag({ConsultaRow(c)})]_vars

\* some key shows the error state: loading false, data null, error set
ShowsError == \E k \in Keys : \E q \in ValidQueries(k) : serviceState[k] = ErrorState(q)

\* C13 (as stated): no promise returned by fetchService rejects; a lookup that
\* fails moves its key to the error state (loading false, data null, error
\* set); and when the one invocation a signed-in user made ends with its key
\* in the error state, consultas holds its row, with success false.
C13_FailureContained ==
    [][/\ ~calls'.rejected
       /\ \A c \in InFlight :
             HttpResponse(c, FALSE) => serviceState'[c.key] = ErrorState(c.query)
       /\ (/\ session # ""
           /\ calls.lookups = 1
           /\ calls.inflight # EmptyBag
           /\ calls'.inflight = EmptyBag
           /\ ShowsError') =>
             consultas' = SetToBag({[user_id |-> session, success |-> FALSE]})]_vars

\* the two rows of a vehicle consult whose soat lookup failed and whose sunarp
\* lookup succeeded
OneFailedOneSucceeded ==
    SetToBag({[user_id |-> session, success |-> FALSE],
              [user_id |-> session, success |-> TRUE]})

\* both lookups made were of the same plate, soat failed, sunarp succeeded,
\* both invocations have ended and consume_credit deducted a credit for each
FannedOut(plate) ==
    /\ calls.lookups = 2
    /\ calls.inflight = EmptyBag
    /\ serviceState["soat"] = ErrorState(plate)
    /\ serviceState["sunarp"] = SuccessState(plate)
    /\ user_credits # <<>>
    /\ user_credits[1].consultas_usadas = 2

\* C14: (i) a bulk press that passes its checks starts, in that very step and
\* so before any lookup can fail, the lookup of every key of the scope that
\* the render does not show loading; (ii) a lookup that fails changes the
\* state of its own key only and leaves every other invocation, consultas
\* and user_credits as they were; (iii) every invocation waiting for its
\* answer can get it, success or failure, whatever the others did; (iv) when
\* soat failed and sunarp succeeded and a credit was deducted for each,
\* consultas holds one row of each.
C14_FanOutIsolation ==
    [][/\ \A scope \in {"vehiculo", "persona"} :
             \A v \in QueryValues(IF scope = "vehiculo" THEN "placa" ELSE "dni") :
                Effective(BulkConsult(scope, v)) =>
                   \A k \in ScopeKeys(scope) :
                      \/ view.serviceState[k].loading
                      \/ /\ serviceState'[k] = LoadingState(ResetState, v)
                         /\ CopiesIn(NewCall(k, v), calls'.inflight)
                               = CopiesIn(NewCall(k, v), calls.inflight) + 1
       /\ \A c \in InFlight :
             HttpResponse(c, FALSE) =>
                /\ \A k \in Keys \ {c.key} : serviceState'[k] = serviceState[k]
                /\ calls'.inflight (-) SetToBag({Finally("register", FALSE, "none", <<>>)})
                      = calls.inflight (-) SetToBag({c})
                /\ UNCHANGED <<consultas, user_credits, usage>>
       /\ \A c \in InFlight :
             c.pc = "http" =>
                ENABLED HttpResponse(c, TRUE) /\ ENABLED HttpResponse(c, FALSE)
       /\ \A plate \in ValidQueries("soat") :
             FannedOut(plate) => consultas = OneFailedOneSucceeded]_vars

\* C14 witness: the vehicle consult of one plate has ended, soat in the error
\* state and sunarp in the success state, and consultas holds one row of each.
C14_Witness ==
    /\ FannedOut("ABC123")
    /\ ~calls.rejected
    /\ consultas = OneFailedOneSucceeded

\* the minimum the claim states: 6 characters for a plate service, 8 for a
\* document service
StatedMinimum(k) == IF Field(k) = "placa" THEN 6 ELSE 8

\* C15: a fetchService call, forced or not, whose query value is shorter than
\* the stated minimum issues no lookup, leaves every service state unchanged
\* and writes nothing to consultas or user_credits, in every state.
C15_ShortQueryIgnored ==
    \A k \in Keys, force \in BOOLEAN : \A q \in QueryValues(Field(k)) :
        Len(q) < StatedMinimum(k) =>
            /\ ~ENABLED Effective(FetchService(k, q, force))
            /\ calls.lookups < MaxLookups => ENABLED Ignored(k, q, force)

\* C15 witness: the document service shows the error of an earlier lookup
\* and the gate is open, so that a forced call with 8 digits issues a lookup;
\* the forced call with 7 digits is made and returns without effect.
C15_Witness ==
    /\ calls.lookups = 1
    /\ hasCredits(view.usage)
    /\ view.usage # <<>>
    /\ view.serviceState["licencia"] = ErrorState("12345678")
    /\ ENABLED Dispatches("licencia", "12345678", TRUE)
    /\ ENABLED Ignored("licencia", "1234567", TRUE)

(***************************************************************************)
(*                 CLAIMS: the screen with a loaded snapshot               *)
(***************************************************************************)
LastCreditUsed ==
    <<[NewGrant("u1", Plans["basico"], 0) EXCEPT
          !.total_consultas = 1, !.consultas_usadas = 1]>>

\* the one lookup made, of service soat, has succeeded and has returned (its
\* promise has resolved), and consume_credit has deducted the one credit the
\* snapshot showed
MeteredOnce ==
    /\ user_credits = LastCreditUsed
    /\ calls.lookups = 1
    /\ calls.inflight = EmptyBag
    /\ ~calls.rejected
    /\ serviceState["soat"] = SuccessState("ABC123")

\* C5: a user whose snapshot shows creditsRemaining = 1 looks up a plate with
\* service soat and the lookup succeeds, the credit being deducted: when
\* fetchService has returned the snapshot of the screen shows 0, and once that
\* snapshot is rendered no further call, the same one included, issues a lookup.
C5_EndToEndMetering ==
    MeteredOnce =>
        /\ usage # <<>>
        /\ usage[1].creditsRemaining = 0
        /\ view = Rendered(serviceState, usage) =>
              \A k \in Keys, force \in BOOLEAN : \A q \in QueryValues(Field(k)) :
                  ~ENABLED Effective(FetchService(k, q, force))

\* C5 witness: that lookup has returned, the snapshot showing 0 is rendered,
\* and the second, forced call for the same plate is made and has no effect.
C5_Witness ==
    /\ MeteredOnce
    /\ view = Rendered(serviceState, usage)
    /\ ShowsZero
    /\ ENABLED Ignored("soat", "ABC123", TRUE)

(***************************************************************************)
(*                      CLAIMS: enrichSunarpWithDni                        *)
(***************************************************************************)
\* the document after cleaning is a national ID: exactly 8 digits
IsNationalId(documento) == Len(StripNonDigits(documento)) = 8

\* C16 (as stated): in every call, an owner whose document after cleaning is
\* not exactly 8 digits (empty, shorter, or longer such as an 11-digit company
\* number) has no lookup issued and is returned unchanged.
C16_OnlyNationalIds ==
    \A i \in DOMAIN enrichment.slots :
        ~IsNationalId(enrichment.parsed[i].documento) =>
            /\ ~enrichment.slots[i].lookup
            /\ enrichment.phase = "resolved" => enrichment.result[i] = enrichment.parsed[i]

\* C17: a call never rejects and can always settle once every lookup has
\* answered; when it has resolved, the result has the length of the argument,
\* position i holds the owner of position i, an owner whose lookup failed is
\* the original object, and an owner whose lookup answered carries the answer
\* whatever happened to the lookups of the others.
C17_EnrichmentIsolated ==
    /\ enrichment.phase # "rejected"
    /\ (/\ enrichment.phase = "running"
        /\ \A i \in DOMAIN enrichment.slots : enrichment.slots[i].state # "pending") =>
          ENABLED EnrichSettle
    /\ enrichment.phase = "resolved" =>
          /\ Len(enrichment.result) = Len(enrichment.parsed)
          /\ \A i \in DOMAIN enrichment.slots :
                LET prop == enrichment.parsed[i]
                    answer == enrichment.slots[i].answer
                IN  /\ enrichment.result[i].documento = prop.documento
                    /\ answer \in {"none", "failed"} => enrichment.result[i] = prop
                    /\ answer \in {"named", "unnamed"} =>
                          enrichment.result[i] = [prop EXCEPT !.reniec = answer]

\* C17 witness: a call for two owners with different national IDs has
\* resolved; the lookup of the first failed and the first is returned as it
\* was, the lookup of the second answered and the second carries the answer.
C17_Witness ==
    /\ enrichment.phase = "resolved"
    /\ Len(enrichment.parsed) = 2
    /\ enrichment.parsed[1].documento # enrichment.parsed[2].documento
    /\ enrichment.slots[1].answer = "failed"
    /\ enrichment.result[1] = enrichment.parsed[1]
    /\ enrichment.slots[2].answer = "named"
    /\ enrichment.result[2].reniec = "named"

(***************************************************************************)
(*                      CLAIMS: the owner-lookup effect                    *)
(***************************************************************************)
\* C9: whenever run() sets ownerLookup, the cycle it belongs to is the last one
\* started, has not been aborted and was started for the current owner name;
\* and every cycle but the last has been aborted.
C9_OnlyFinalCycleApplies ==
    [][/\ applied' # applied =>
            /\ applied' = Len(cycles)
            /\ ~cycles[applied'].aborted
            /\ cycles[applied'].key = QueryKey(normalizeOwnerName(ownerName))
            /\ ownerLookup'.query = QueryKey(normalizeOwnerName(ownerName))
       /\ \A i \in DOMAIN cycles' : i < Len(cycles') => cycles'[i].aborted]_vars

\* C9 witness: the name changed twice while the lookups of the first and of the
\* second name were unanswered, and the result applied is the third cycle's.
C9_Witness ==
    /\ Len(cycles) = 3
    /\ \A i \in {1, 2} :
          cycles[i].aborted /\ cycles[i].sunat = "pending" /\ cycles[i].tried = 0
    /\ cycles[1].key # cycles[2].key
    /\ cycles[2].key # cycles[3].key
    /\ applied = 3
    /\ ownerLookup.query = cycles[3].key
    /\ ~ownerLookup.loading

\* run() of cycle i completes in this step: it sets ownerLookup and returns
Completes(i) == ~cycles[i].done /\ cycles'[i].done

\* the company lookup of cycle i has yielded a match, before or in this step
CompanyMatch(i) == cycles[i].sunat = "match" \/ SunatResponse(i, "match")

\* the person lookup of cycle i has yielded a match, before or in this step
PersonMatch(i) == cycles[i].dni = "match" \/ DniResponse(i, "match")

\* C18 (as stated): when a cycle that was not cancelled completes, the state
\* it sets has type 'empresa' if its company lookup yielded a match; else type
\* 'persona' if its person lookup yielded a match, also when the company
\* lookup failed; else it is an error state with type null and data null.
C18_Precedence ==
    [][\A i \in DOMAIN cycles :
          Completes(i) =>
             IF CompanyMatch(i) THEN ownerLookup'.type = "empresa"
             ELSE IF PersonMatch(i) THEN ownerLookup'.type = "persona"
             ELSE /\ ownerLookup'.type = NoString
                  /\ ~ownerLookup'.data
                  /\ ownerLookup'.error # NoString]_vars

\* the cache key of a name
KeyOf(name) == QueryKey(normalizeOwnerName(name))

\* the effect runs for another name with a cache key, and starts a lookup
EffectRuns(name) == NameChange(name) /\ normalizeOwnerName(name) # <<>>
StartsLookup == Len(cycles') = Len(cycles) + 1

\* the effect runs for another name and returns at the test of shouldFetch
SkipsLookup(name) == EffectRuns(name) /\ ~StartsLookup

\* the state holds a result of the key, not in error
HoldsMatch(key) ==
    ownerLookup.query = key /\ ownerLookup.data /\ ownerLookup.error = NoString

\* the state holds a settled result of the key: a match or an error
HoldsSettled(key) ==
    /\ ownerLookup.query = key
    /\ (ownerLookup.data \/ ownerLookup.error # NoString)
    /\ ~ownerLookup.loading

\* C19 (as stated): when the effect runs for a cache key, the lookup is
\* skipped only if the state holds a result of that key that is not in error;
\* an error held for the same key does not suppress the lookup; another key
\* always starts a lookup.
C19_ErrorNotCachedAsStated ==
    [][\A name \in OwnerNames :
          EffectRuns(name) =>
             /\ ~StartsLookup => HoldsMatch(KeyOf(name))
             /\ (ownerLookup.query = KeyOf(name) /\ ownerLookup.error # NoString) =>
                   StartsLookup
             /\ ownerLookup.query # KeyOf(name) => StartsLookup]_vars

\* C19 (amended): when the effect runs for a cache key, the lookup is skipped
\* only if the state holds a settled result of that key, a match or an error,
\* and is not loading, and the skip leaves the state as it was; an error held
\* for the same key does suppress the lookup that way, as a match does;
\* another key always starts a lookup.
C19_SettledResultCached ==
    /\ [][\A name \in OwnerNames :
             EffectRuns(name) =>
                /\ ~StartsLookup =>
                      HoldsSettled(KeyOf(name)) /\ ownerLookup' = ownerLookup
                /\ ownerLookup.query # KeyOf(name) => StartsLookup]_vars
    /\ [](\A name \in OwnerNames \ {ownerName} :
             (normalizeOwnerName(name) # <<>> /\ HoldsSettled(KeyOf(name))) =>
                ENABLED SkipsLookup(name))

\* C19 witness: the lookup of a name ended in error, the name changed to one
\* with the same cache key, and no lookup was started for it: the error of
\* the first cycle is still the state.
C19_Witness ==
    /\ Len(cycles) = 1
    /\ cycles[1].done
    /\ cycles[1].names[1] # ownerName
    /\ cycles[1].key = KeyOf(ownerName)
    /\ ownerLookup.query = KeyOf(ownerName)
    /\ ownerLookup.error # NoString
    /\ ~ownerLookup.loading

(***************************************************************************)
(*                            CLAIMS: parseSoat                            *)
(***************************************************************************)
\* the record whose 8 named fields are the 8 tokens in order
RecordOf(tokens) ==
    [aseguradora |-> tokens[1], clase |-> tokens[2], uso |-> tokens[3],
     accidentes |-> tokens[4], poliza |-> tokens[5], certificado |-> tokens[6],
     inicio |-> tokens[7], fin |-> tokens[8]]

EightFields(r) ==
    [aseguradora |-> r.aseguradora, clase |-> r.clase, uso |-> r.uso,
     accidentes |-> r.accidentes, poliza |-> r.poliza, certificado |-> r.certificado,
     inicio |-> r.inicio, fin |-> r.fin]

\* C20 (as stated): for a text made of a header line with the column-name
\* fragment followed by a row of tab-separated tokens, parseSoat returns, when
\* the row has 8 tokens, a record whose 8 fields are the tokens in order, and
\* null when the row has fewer than 8 tokens.
C20_RoundTrip ==
    soat.called =>
        LET tokens == soat.made[1].tokens
        IN  /\ Len(tokens) = 8 =>
                  soat.parsed # <<>> /\ EightFields(soat.parsed[1]) = RecordOf(tokens)
            /\ Len(tokens) < 8 => soat.parsed = <<>>

(***************************************************************************)
(*                    CLAIMS: isCompanyName and ownerType                  *)
(***************************************************************************)
\* every letter of the alphabet of the names, accented ones included
Letters ==
    {LowerLetters[i] : i \in DOMAIN LowerLetters}
        \cup {UpperLetters[i] : i \in DOMAIN UpperLetters}

\* the characters from..to of s are a whole word: a maximal run of letters
IsWholeWord(s, from, to) ==
    /\ from <= to
    /\ \A i \in from..to : s[i] \in Letters
    /\ from = 1 \/ s[from - 1] \notin Letters
    /\ to = Len(s) \/ s[to + 1] \notin Letters

WholeWords(s) ==
    {SubSeq(s, w[1], w[2]) :
        w \in {v \in (DOMAIN s) \X (DOMAIN s) : IsWholeWord(s, v[1], v[2])}}

\* a whole word of the normalized form is in the token list, whatever its case
\* and with Ñ read as N
HasCompanyWord(name) ==
    \E w \in WholeWords(normalizeOwnerName(name)) :
       FoldEnye(toUpperCase(w)) \in COMPANY_TOKENS

\* C21 (as stated): an owner name is classified 'empresa' exactly when a whole
\* word of its normalized form is in the company token list and 'persona'
\* otherwise; TRANSPORTES ACME SAC is 'empresa' and JUAN CARLOS PEREZ LOPEZ is
\* 'persona'.
C21_CompanyByWholeWord ==
    (classified.called /\ normalizeOwnerName(classified.name) # <<>>) =>
        /\ classified.type =
              IF HasCompanyWord(classified.name) THEN "empresa" ELSE "persona"
        /\ classified.name = TransportesAcmeSac => classified.type = "empresa"
        /\ classified.name = JuanCarlosPerezLopez => classified.type = "persona"

(***************************************************************************)
(*                 CLAIMS: liveness of the per-key state                   *)
(***************************************************************************)
\* the render shows key k completed: success or error, not loading
Completed(k) ==
    /\ ~view.serviceState[k].loading
    /\ view.serviceState[k].data \/ view.serviceState[k].error

\* C22: when every lookup eventually answers or fails, (i) a key that is
\* loading eventually is not, and no invocation waits for its lookup for
\* ever; (ii) the answer of a lookup sets the key of its invocation to
\* success or to error, with loading false; (iii) a key the render shows
\* completed re-enters loading on a forced request, as long as the credit
\* gate lets requests through.
C22_LoadingEnds ==
    /\ \A k \in Keys : serviceState[k].loading ~> ~serviceState[k].loading
    /\ \A k \in Keys : (HttpInFlight(k) > 0) ~> (HttpInFlight(k) = 0)
    /\ [][\A c \in InFlight, ok \in BOOLEAN :
             HttpResponse(c, ok) =>
                serviceState'[c.key] =
                   IF ok THEN SuccessState(c.query) ELSE ErrorState(c.query)]_vars
    /\ [](\A k \in Keys : \A q \in ValidQueries(k) :
             (Completed(k) /\ hasCredits(view.usage) /\ calls.lookups < MaxLookups) =>
                ENABLED (FetchService(k, q, TRUE) /\ serviceState'[k].loading))

\* the soat key is loading again after a lookup that succeeded (setService
\* keeps the data of the previous state while loading)
C22_Witness ==
    /\ calls.lookups = 2
    /\ serviceState["soat"].loading
    /\ serviceState["soat"].data
    /\ HttpInFlight("soat") = 1

(***************************************************************************)
(*                    CLAIMS: the active grant and plans                   *)
(***************************************************************************)
\* the rows of uid that have not expired at the clock of the call
Unexpired(uid) ==
    {i \in DOMAIN user_credits :
        user_credits[i].user_id = uid /\ user_credits[i].valid_until >= now}

\* row i has the latest valid_until of the rows in sel and, among the rows
\* with that valid_until, the latest created_at
Latest(i, sel) ==
    \A j \in sel :
       /\ user_credits[i].valid_until >= user_credits[j].valid_until
       /\ user_credits[i].valid_until = user_credits[j].valid_until =>
             user_credits[i].created_at >= user_credits[j].created_at

\* C23: a getUsageSnapshot call whose read of user_credits succeeds selects,
\* among the rows of the user with valid_until >= now, one with the latest
\* valid_until and, among those, the latest created_at (none when there is no
\* such row); creditsUsed, validUntil and a non-null total are those of that
\* row, and the snapshot is the one the call returns when that row is the
\* only row of the table.
C23_ActiveGrantSelection ==
    [][\A uid \in Users :
          (GetUsageSnapshot(uid) /\ snapCall'.read \in {"ok", "plan_failed"}) =>
             LET s == snapshot'[1]
             IN  IF Unexpired(uid) = {} THEN s.credit = <<>>
                 ELSE \E i \in Unexpired(uid) :
                         /\ s.credit = <<user_credits[i]>>
                         /\ Latest(i, Unexpired(uid))
                         /\ s.creditsUsed = user_credits[i].consultas_usadas
                         /\ s.validUntil = user_credits[i].valid_until
                         /\ user_credits[i].total_consultas # NULL =>
                               s.creditsTotal = user_credits[i].total_consultas
                         /\ s \in getUsageSnapshot(supabaseOk, uid, <<user_credits[i]>>,
                                                   now, snapCall'.read)]_vars

\* C23 witness: the user holds two unexpired grants with the same valid_until,
\* the second created later, and the call selected the second.
C23_Witness ==
    /\ snapshot # <<>>
    /\ snapCall.read = "ok"
    /\ Len(user_credits) = 2
    /\ user_credits[1].user_id = snapCall.userId
    /\ user_credits[2].user_id = snapCall.userId
    /\ user_credits[1].valid_until = user_credits[2].valid_until
    /\ user_credits[1].valid_until >= snapCall.at
    /\ user_credits[1].created_at < user_credits[2].created_at
    /\ user_credits[1].consultas_usadas # user_credits[2].consultas_usadas
    /\ Snap.credit = <<user_credits[2]>>
    /\ Snap.creditsUsed = user_credits[2].consultas_usadas

\* the last row of user_credits is the one a changePlan call of uid for
\* planId wrote
LastGrantBy(uid, planId) ==
    /\ user_credits # <<>>
    /\ LET row == user_credits[Len(user_credits)]
       IN  row = NewGrant(uid, Plans[planId], row.created_at)

\* a getUsageSnapshot call of uid whose reads succeed
SnapshotRead(uid) == GetUsageSnapshot(uid) /\ snapCall'.read = "ok"

\* C26 (as stated): a getUsageSnapshot call of the user that follows a
\* changePlan call for a plan whose total_consultas is null reports
\* creditsTotal null and creditsRemaining null, and hasCredits lets the user
\* through.
C26_UnlimitedStaysUnlimited ==
    [][\A uid \in Users, planId \in PlanIds :
          (/\ Plans[planId].total_consultas = NULL
           /\ LastGrantBy(uid, planId)
           /\ SnapshotRead(uid)) =>
             /\ snapshot'[1].creditsTotal = NULL
             /\ snapshot'[1].creditsRemaining = NULL
             /\ hasCredits(snapshot')]_vars

At(inflight, pc) ==
    LET sel == {c \in BagToSet(inflight) : c.pc = pc}
    IN  BagCardinality([c \in sel |-> inflight[c]])

\* one invocation goes from one point to the next, the others stay
Advances(from, to) ==
    /\ At(calls'.inflight, from) = At(calls.inflight, from) - 1
    /\ At(calls'.inflight, to) = At(calls.inflight, to) + 1

\* the answers of consume_credit after which the consultas row is inserted
Consumed(inflight) ==
    \E c \in BagToSet(inflight) : c.pc = "refresh" /\ c.consume \in {"true", "error"}

\* C24: (i) the answer of the lookup sets the key to success or error and
\* touches neither table nor the snapshot; with a session the invocation then
\* goes on to register, without one it ends; (ii) the tables change only in
\* the register step of an invocation that has settled its key, the credit
\* only there, the row only after an answer of consume_credit that lets it
\* through, and that invocation goes on to the refresh; (iii) the snapshot of
\* the screen changes only at the end of the refresh of an invocation that
\* has registered; (iv) no invocation reaches a later point other than from
\* the point before; (v) without a session no invocation is ever past its
\* lookup and neither table nor the snapshot changes.
C24_PostLookupOrder ==
    [][/\ \A c \in InFlight, ok \in BOOLEAN :
             HttpResponse(c, ok) =>
                /\ serviceState'[c.key] =
                      IF ok THEN SuccessState(c.query) ELSE ErrorState(c.query)
                /\ UNCHANGED <<consultas, user_credits, usage>>
                /\ IF session # NoUser THEN Advances("http", "register")
                   ELSE calls'.inflight = calls.inflight (-) SetToBag({c})
       /\ (consultas' # consultas \/ user_credits' # user_credits) =>
             /\ session # NoUser
             /\ Advances("register", "refresh")
             /\ UNCHANGED <<serviceState, usage>>
             /\ consultas' # consultas => Consumed(calls'.inflight)
       /\ usage' # usage =>
             /\ session # NoUser
             /\ At(calls'.inflight, "apply") = At(calls.inflight, "apply") - 1
             /\ UNCHANGED <<serviceState, consultas, user_credits>>
       /\ At(calls'.inflight, "register") > At(calls.inflight, "register") =>
             Advances("http", "register")
       /\ At(calls'.inflight, "refresh") > At(calls.inflight, "refresh") =>
             Advances("register", "refresh")
       /\ At(calls'.inflight, "apply") > At(calls.inflight, "apply") =>
             Advances("refresh", "apply")
       /\ session = NoUser =>
             /\ \A c \in BagToSet(calls'.inflight) : c.pc = "http"
             /\ UNCHANGED <<consultas, user_credits, usage>>]_vars

\* C24 witness: the one invocation of a signed-in user has gone through all
\* its points: the key shows success, the credit is deducted, the row is in
\* consultas and the screen holds the snapshot read after both.
C24_Witness ==
    /\ session = "u1"
    /\ calls.lookups = 1
    /\ calls.inflight = EmptyBag
    /\ serviceState["soat"] = SuccessState("ABC123")
    /\ consultas = SetToBag({[user_id |-> "u1", success |-> TRUE]})
    /\ user_credits # <<>>
    /\ user_credits[1].consultas_usadas = 1
    /\ usage # <<>>
    /\ usage[1].creditsUsed = 1

(***************************************************************************)
(*                    CLAIMS: parseItv and its badge                       *)
(***************************************************************************)
\* C25 (as stated): when the payload carries a boolean vigente, the status
\* the card shows of the record parseItv returned says what the flag says
\* (valid for true, expired for false), whatever status the row holds.
C25_FlagOverridesRow ==
    (itv.called /\ itv.made[1].full.vigente \in {"true", "false"}) =>
        /\ itv.parsed # <<>>
        /\ itv.badge # <<>>
        /\ Tone(itv.badge) = Tone(FlagStatus(itv.made[1].full))

(***************************************************************************)
(*                   CLAIMS: overdraft, free pass, staleness               *)
(***************************************************************************)
\* C30 (as stated): once a plate P has been submitted with handleConsult and
\* every invocation in flight has completed, every service state of the
\* vehicle scope that holds data or an error has query = P.
C30_ResultsMatchLatestQuery ==
    (submitted # NoString /\ calls.inflight = EmptyBag) =>
        \A k \in ScopeKeys("vehiculo") :
           (serviceState[k].data \/ serviceState[k].error) =>
               serviceState[k].query = submitted

\* C28 (as stated): a session user whose grant has a finite number N of
\* credits and who changes no plan dispatches at most N HTTP lookups, whatever
\* sequence of fetchService and bulk invocations is made, and once every
\* invocation has returned each dispatched lookup has one credit deduction and
\* one consultation record.
C28_NoOverdraft ==
    \A i \in DOMAIN user_credits :
       LET grant == user_credits[i]
       IN  (grant.user_id = session /\ grant.total_consultas # NULL) =>
              /\ calls.lookups <= grant.total_consultas
              /\ calls.inflight = EmptyBag =>
                    /\ grant.consultas_usadas = calls.lookups
                    /\ BagCardinality(consultas) = calls.lookups

\* C29 (as stated): while the session user has no active grant, no fetchService
\* invocation has dispatched an HTTP lookup, in every state of the screen, the
\* states before the first usage snapshot has been loaded included.
C29_NoFreePass ==
    (session # NoUser /\ Unexpired(session) = {}) => calls.lookups = 0

====
